---- MODULE Spec2Model ----
(***************************************************************************)
(* A model of CiliTest: the flat-rule converter (src/src/converter.py),    *)
(* the connection extractors and the enforcement simulator                 *)
(* (src/src/tester.py, src/src/visualizer.py), the validation result       *)
(* object, the schema check and validate_policy (src/src/validator.py),    *)
(* and the tester's operations on a policy file: _extract_rules,           *)
(* _test_connectivity_with_cilium and run_real_validation                  *)
(* (src/src/tester.py), the workflow command that chains convert,          *)
(* validate, test and visualize (src/src/cli.py), and the session of the   *)
(* Streamlit dashboard (src/dashboard.py).                                 *)
(*                                                                         *)
(* Python values are modelled as follows.                                  *)
(*   dict   a function from its keys (strings) to values; a key the dict   *)
(*          lacks is outside its DOMAIN                                    *)
(*   list   a sequence                                                     *)
(*   label  (the value of an `app` label, a src or a dest) a string        *)
(*   port   a tagged scalar: PyStr("80"), PyInt(80) or None, so that the   *)
(*          string "80" and the integer 80 stay different values           *)
(***************************************************************************)
EXTENDS Integers, Sequences, FiniteSets, TLC

VARIABLES
    pc,                  \* which operation ran last
    cnp,                 \* the parsed policy document handed to the tester
    query,               \* the (src, dest, port) candidate of the last simulation
    sim,                 \* outcome of _simulate_policy_enforcement
    rules,               \* the flat rules read by convert_rules
    converted,           \* outcome of convert_rules
    connections,         \* outcome of _extract_connections on the converted document
    is_valid,            \* ValidationResult.is_valid
    yaml_syntax_errors,  \* ValidationResult.yaml_syntax_errors
    yaml_lint_warnings,  \* ValidationResult.yaml_lint_warnings
    schema_errors,       \* ValidationResult.schema_errors
    suggestions,         \* ValidationResult.suggestions
    file,                \* what is found at the path handed to the validator or the tester
    reported,            \* outcome of validate_cilium_schema
    tools,               \* how the external tools behaved during the last operation
    extracted,           \* outcome of tester._extract_rules
    results,             \* outcome of _test_connectivity_with_cilium
    validation,          \* outcome of run_real_validation
    workflow,            \* the options, the progress and the exit of the workflow command
    session,             \* the dashboard's st.session_state
    page,                \* the page chosen in the dashboard's sidebar
    uploaded             \* the files held by the dashboard's two upload widgets

simVars == <<cnp, query, sim>>
convVars == <<rules, converted, connections>>
resultVars == <<is_valid, yaml_syntax_errors, yaml_lint_warnings, schema_errors, suggestions>>
fileVars == <<file, reported, tools, extracted, results, validation>>
appVars == <<workflow, session, page, uploaded>>
vars == <<pc, simVars, convVars, resultVars, fileVars, appVars>>

----------------------------------------------------------------------------
(* Python values *)

EmptyDict == [k \in {} |-> TRUE]
None == [none |-> TRUE]
PyStr(s) == [str |-> s]
PyInt(n) == [int |-> n]

IsNone(x) == "none" \in DOMAIN x
IsStr(x) == "str" \in DOMAIN x
IsInt(x) == "int" \in DOMAIN x

\* Python's == on scalars: values of different types are never equal.
PyEq(a, b) ==
    \/ IsNone(a) /\ IsNone(b)
    \/ IsStr(a) /\ IsStr(b) /\ a.str = b.str
    \/ IsInt(a) /\ IsInt(b) /\ a.int = b.int

\* `k in d`
Has(d, k) == k \in DOMAIN d

\* d.get(k, default)
Get(d, k, default) == IF Has(d, k) THEN d[k] ELSE default

\* bool(x) of a list or a dict: empty containers are falsy.
Truthy(x) == DOMAIN x # {}

\* x.get("matchLabels", {}).get("app"), as a set: empty when there is no app label.
AppOf(selector) ==
    LET labels == Get(selector, "matchLabels", EmptyDict)
    IN  IF Has(labels, "app") THEN {labels.app} ELSE {}

----------------------------------------------------------------------------
(* tester._simulate_policy_enforcement *)

Returned(status, details) == [status |-> status, details |-> details]
Raised(exc) == [raised |-> exc]

DidReturn(r) == Has(r, "status")
DidRaise(r) == Has(r, "raised")

\* `specs = cnp.get("specs") or cnp.get("spec") or []`: `specs` holds a list and
\* `spec` a mapping, so the value picked is a list of specs or a single mapping.
SelectedSpecs(doc) ==
    IF Has(doc, "specs") /\ Truthy(doc.specs) THEN [kind |-> "list", items |-> doc.specs]
    ELSE IF Has(doc, "spec") /\ Truthy(doc.spec) THEN [kind |-> "dict", keys |-> DOMAIN doc.spec]
    ELSE [kind |-> "list", items |-> <<>>]

\* The two nested loops over toPorts[*].ports[*]: they return as soon as one port
\* entry satisfies `port_spec.get("port") == port or port == "any"`.
PortLoopAllows(to_ports, port) ==
    \E i \in 1..Len(to_ports) :
        LET ports == Get(to_ports[i], "ports", <<>>)
        IN  \E j \in 1..Len(ports) :
                \/ PyEq(Get(ports[j], "port", None), port)
                \/ PyEq(port, PyStr("any"))

NoDecision == [undecided |-> TRUE]

\* The body of `for endpoint in to_endpoints` for one endpoint.
EndpointDecision(egress, endpoint, dest, port) ==
    IF dest \in AppOf(endpoint)
    THEN LET to_ports == Get(egress, "toPorts", <<>>)
         IN  IF ~Truthy(to_ports)
             THEN Returned("allowed", [msg |-> "Policy explicitly allows connection"])
             ELSE IF PortLoopAllows(to_ports, port)
                  THEN Returned("allowed", [msg |-> "Policy allows connection on port", port |-> port])
                  ELSE NoDecision
    ELSE NoDecision

RECURSIVE ScanEndpoints(_, _, _, _, _)
ScanEndpoints(egress, to_endpoints, i, dest, port) ==
    IF i > Len(to_endpoints) THEN NoDecision
    ELSE LET d == EndpointDecision(egress, to_endpoints[i], dest, port)
         IN  IF d # NoDecision THEN d
             ELSE ScanEndpoints(egress, to_endpoints, i + 1, dest, port)

RECURSIVE ScanEgress(_, _, _, _)
ScanEgress(egress_rules, i, dest, port) ==
    IF i > Len(egress_rules) THEN NoDecision
    ELSE LET egress == egress_rules[i]
             d == ScanEndpoints(egress, Get(egress, "toEndpoints", <<>>), 1, dest, port)
         IN  IF d # NoDecision THEN d
             ELSE ScanEgress(egress_rules, i + 1, dest, port)

\* A simulator that lets an egressDeny rule naming dest and port block the
\* connection before the allow rules are read.
SpecDecision_denying(spec, src, dest, port) ==
    IF src \in AppOf(Get(spec, "endpointSelector", EmptyDict))
    THEN IF ScanEgress(Get(spec, "egressDeny", <<>>), 1, dest, port) # NoDecision
         THEN Returned("blocked", [msg |-> "Policy denies connection"])
         ELSE ScanEgress(Get(spec, "egress", <<>>), 1, dest, port)
    ELSE NoDecision

\* The body of `for spec in specs` for one spec.
SpecDecision(spec, src, dest, port) ==
    IF src \in AppOf(Get(spec, "endpointSelector", EmptyDict))
    THEN ScanEgress(Get(spec, "egress", <<>>), 1, dest, port)
    ELSE NoDecision

\* A simulator in which the first spec selecting src decides alone.
RECURSIVE ScanSpecsFirstSelected(_, _, _, _, _)
ScanSpecsFirstSelected(specs, i, src, dest, port) ==
    IF i > Len(specs) THEN NoDecision
    ELSE IF src \in AppOf(Get(specs[i], "endpointSelector", EmptyDict))
         THEN SpecDecision(specs[i], src, dest, port)
         ELSE ScanSpecsFirstSelected(specs, i + 1, src, dest, port)

RECURSIVE ScanSpecs(_, _, _, _, _)
ScanSpecs(specs, i, src, dest, port) ==
    IF i > Len(specs) THEN NoDecision
    ELSE LET d == SpecDecision(specs[i], src, dest, port)
         IN  IF d # NoDecision THEN d
             ELSE ScanSpecs(specs, i + 1, src, dest, port)

\* Iterating a mapping yields its keys, which are strings: the first
\* `spec.get(...)` raises AttributeError.
simulate_policy_enforcement(src, dest, port, doc) ==
    LET specs == SelectedSpecs(doc)
    IN  IF specs.kind = "dict"
        THEN Raised("AttributeError")
        ELSE LET d == ScanSpecs(specs.items, 1, src, dest, port)
             IN  IF d # NoDecision THEN d
                 ELSE Returned("blocked", [msg |-> "No policy rule allows this connection"])

----------------------------------------------------------------------------
(* The policy documents and candidates the simulator is run on *)

MaxSpecs == 2        \* longest `specs` list
MaxEgress == 2       \* longest `egress` list
MaxEndpoints == 2    \* longest `toEndpoints` list
MaxPortRules == 2    \* longest `toPorts` list
MaxPorts == 2        \* longest `ports` list

SrcLabels == {"A", "B"}
DestLabels == {"B", "C"}
PortNames == {"80", "443"}

Lists(S, lo, hi) == UNION {[1..k -> S] : k \in lo..hi}

\* A dict that lacks key k, or has it with a value from V.
OptField(k, V) == {EmptyDict} \cup {k :> v : v \in V}

\* LabelSelector: {}, {matchLabels: {}} or {matchLabels: {app: l}}
LabelSelectors(L) ==
    {EmptyDict, [matchLabels |-> EmptyDict]} \cup {[matchLabels |-> [app |-> l]] : l \in L}

AppSelector(l) == [matchLabels |-> [app |-> l]]

PortEntries ==
    {[port |-> PyStr(p), protocol |-> "TCP"] : p \in PortNames} \cup {[protocol |-> "TCP"]}

PortRulesUpTo(n) == {EmptyDict} \cup {[ports |-> ps] : ps \in Lists(PortEntries, 0, n)}

RulesOf(EndpointLists, PortRuleLists) ==
    {e @@ p : e \in OptField("toEndpoints", EndpointLists),
              p \in OptField("toPorts", PortRuleLists)}

SpecsOf(Selectors, EgressLists) ==
    {s @@ e : s \in OptField("endpointSelector", Selectors),
              e \in OptField("egress", EgressLists)}

\* Complete rules and specs: every label present, one endpoint, at most one port.
SimplePortRuleLists == {<<[ports |-> <<[port |-> PyStr(p), protocol |-> "TCP"]>>]>> : p \in PortNames}
SimpleRules ==
    {[toEndpoints |-> <<AppSelector(d)>>] @@ p :
        d \in DestLabels, p \in OptField("toPorts", SimplePortRuleLists)}
SimpleSpecs ==
    {[endpointSelector |-> AppSelector(s), egress |-> <<r>>] : s \in SrcLabels, r \in SimpleRules}

\* Structurally incomplete specs: any key may be missing, any list empty.
PartialRules ==
    RulesOf(Lists(LabelSelectors(DestLabels), 0, 1), Lists(PortRulesUpTo(1), 0, 1))
PartialSpecs == SpecsOf(LabelSelectors(SrcLabels), Lists(PartialRules, 0, 1))

\* Documents that are long at one level: specs, egress, toEndpoints, toPorts, ports.
ManySpecs == Lists(SimpleSpecs, 0, MaxSpecs)
ManyEgress ==
    {<<[endpointSelector |-> AppSelector(s), egress |-> rs]>> :
        s \in SrcLabels, rs \in Lists(SimpleRules, 0, MaxEgress)}
ManyEndpoints ==
    {<<[endpointSelector |-> AppSelector(s), egress |-> <<[toEndpoints |-> es] @@ p>>]>> :
        s \in SrcLabels,
        es \in Lists(LabelSelectors(DestLabels), 0, MaxEndpoints),
        p \in OptField("toPorts", SimplePortRuleLists)}
ManyPortRules ==
    {<<[endpointSelector |-> AppSelector(s),
        egress |-> <<[toEndpoints |-> <<AppSelector(d)>>, toPorts |-> ps]>>]>> :
        s \in SrcLabels, d \in DestLabels, ps \in Lists(PortRulesUpTo(1), 0, MaxPortRules)}
ManyPorts ==
    {<<[endpointSelector |-> AppSelector(s),
        egress |-> <<[toEndpoints |-> <<AppSelector(d)>>, toPorts |-> <<pr>>]>>]>> :
        s \in SrcLabels, d \in DestLabels, pr \in PortRulesUpTo(MaxPorts)}

\* Ports written as integers, as YAML reads an unquoted 80, beside a string.
IntegerPorts ==
    {<<[endpointSelector |-> AppSelector("A"),
        egress |-> <<[toEndpoints |-> <<AppSelector("B")>>,
                     toPorts |-> <<[ports |-> <<[port |-> p, protocol |-> "TCP"]>>]>>]>>]>> :
        p \in {PyInt(80), PyInt(443)}}

\* Specs that also hold ingress and deny rules.
OtherRules ==
    {[egressDeny |-> <<r>>] : r \in SimpleRules}
        \cup {[ingress |-> <<[fromEndpoints |-> <<AppSelector("A")>>]>>,
               ingressDeny |-> <<[fromEndpoints |-> <<AppSelector("B")>>]>>]}
WithOtherRules ==
    {<<[endpointSelector |-> AppSelector("A"), egress |-> <<r>>] @@ o>> :
        r \in SimpleRules, o \in OtherRules}
        \cup {<<[endpointSelector |-> AppSelector("A")] @@ o>> : o \in OtherRules}

SpecLists ==
    Lists(PartialSpecs, 0, 1) \cup ManySpecs \cup ManyEgress \cup ManyEndpoints
        \cup ManyPortRules \cup ManyPorts \cup IntegerPorts \cup WithOtherRules

\* `specs` list form, single `spec` mapping form, both keys, or neither.
Documents ==
    {[specs |-> l] : l \in SpecLists}
        \cup {[spec |-> s] : s \in PartialSpecs}
        \cup {[specs |-> l, spec |-> s] : l \in Lists(SimpleSpecs, 0, 1), s \in SimpleSpecs}
        \cup {EmptyDict}

PortCandidates == {PyStr(p) : p \in PortNames} \cup {PyStr("any"), PyInt(80)}

----------------------------------------------------------------------------
(* The tester on one parsed document *)

NotRun == [notrun |-> TRUE]

IdleConv == rules = <<>> /\ converted = NotRun /\ connections = NotRun

NoFile == [exists |-> FALSE]
IdleFile ==
    /\ file = NoFile
    /\ reported = NotRun
    /\ tools = NotRun
    /\ extracted = NotRun
    /\ results = NotRun
    /\ validation = NotRun
IdleDashboard == session = EmptyDict /\ page = "Convert & Validate" /\ uploaded = NotRun
IdleApp == workflow = NotRun /\ IdleDashboard
IdleResult ==
    /\ is_valid = TRUE
    /\ yaml_syntax_errors = <<>>
    /\ yaml_lint_warnings = <<>>
    /\ schema_errors = <<>>
    /\ suggestions = <<>>

InitSim ==
    /\ pc = "loaded"
    /\ cnp \in Documents
    /\ query = NotRun
    /\ sim = NotRun
    /\ IdleConv
    /\ IdleResult
    /\ IdleFile
    /\ IdleApp

\* One call _simulate_policy_enforcement(src, dest, port, cnp).
Simulate ==
    /\ pc = "loaded"
    /\ \E src \in SrcLabels, dest \in DestLabels, port \in PortCandidates :
        /\ query' = [src |-> src, dest |-> dest, port |-> port]
        /\ sim' = simulate_policy_enforcement(src, dest, port, cnp)
    /\ pc' = "simulated"
    /\ UNCHANGED <<cnp, convVars, resultVars, fileVars, appVars>>

NextSim == Simulate

SpecSim == InitSim /\ [][NextSim]_vars

----------------------------------------------------------------------------
(* What the simulator's contract speaks of, stated without the simulator *)

\* The PolicySpecs of a document: the entries of a non-empty `specs`, else the
\* single `spec` mapping.
PolicySpecsOf(doc) ==
    IF Has(doc, "specs") /\ doc.specs # <<>> THEN {doc.specs[i] : i \in 1..Len(doc.specs)}
    ELSE IF Has(doc, "spec") THEN {doc.spec}
    ELSE {}

ListOf(d, k) == IF Has(d, k) THEN {d[k][i] : i \in 1..Len(d[k])} ELSE {}

SelectsApp(selector, l) ==
    /\ Has(selector, "matchLabels")
    /\ Has(selector.matchLabels, "app")
    /\ selector.matchLabels.app = l

\* The egress rules of specs selecting src that name dest in toEndpoints.
MatchingRules(doc, src, dest) ==
    {r \in UNION {ListOf(s, "egress") :
                    s \in {t \in PolicySpecsOf(doc) :
                            Has(t, "endpointSelector") /\ SelectsApp(t.endpointSelector, src)}} :
        \E e \in ListOf(r, "toEndpoints") : SelectsApp(e, dest)}

NoToPorts(r) == ~Has(r, "toPorts") \/ r.toPorts = <<>>

PortEntriesOf(r) == UNION {ListOf(pr, "ports") : pr \in ListOf(r, "toPorts")}

\* The rule lists a port the candidate matches: the same port value, or any
\* listed port when the candidate is the wildcard.
ListsMatchingPort(r, port) ==
    \E e \in PortEntriesOf(r) : (Has(e, "port") /\ e.port = port) \/ port = PyStr("any")

Simulated == pc = "simulated"
Allowed == DidReturn(sim) /\ sim.status = "allowed"
Blocked == DidReturn(sim) /\ sim.status = "blocked"

\* C1: default-deny. The simulator returns "blocked" unless a spec selecting
\* src has an egress rule naming dest that has no toPorts or lists a matching port.
DefaultDeny ==
    Simulated =>
        \/ Blocked
        \/ \E r \in MatchingRules(cnp, query.src, query.dest) :
                NoToPorts(r) \/ ListsMatchingPort(r, query.port)

\* Default-deny on the documents the simulator returns for: whenever it answers
\* "allowed" an allowing rule exists, and without one it answers "blocked".
DefaultDenyWhenReturned ==
    (Simulated /\ DidReturn(sim)) =>
        (Allowed <=>
            \E r \in MatchingRules(cnp, query.src, query.dest) :
                NoToPorts(r) \/ ListsMatchingPort(r, query.port))

\* C2: a matching rule without toPorts allows every candidate port.
NoToPortsAllowsEveryPort ==
    (Simulated /\ \E r \in MatchingRules(cnp, query.src, query.dest) : NoToPorts(r))
        => Allowed

\* C3: the wildcard candidate "any" is allowed by every rule matching src and
\* dest, whatever its toPorts holds.
WildcardPortAllowed ==
    (Simulated /\ query.port = PyStr("any") /\ MatchingRules(cnp, query.src, query.dest) # {})
        => Allowed

\* C4: the simulator returns an ("allowed" | "blocked", reason) pair for every
\* structurally incomplete document, single `spec` form included; it never raises.
SimulatorNeverRaises ==
    Simulated => (DidReturn(sim) /\ sim.status \in {"allowed", "blocked"})

----------------------------------------------------------------------------
(* Rearranged and extended documents *)

\* Every reordering of a list.
Reorderings(l) == {[i \in 1..Len(l) |-> l[p[i]]] : p \in Permutations(1..Len(l))}

\* l with its i-th element replaced by x.
ReplaceAt(l, i, x) == [l EXCEPT ![i] = x]

\* l with x inserted so that it becomes the k-th element.
InsertAt(l, k, x) == SubSeq(l, 1, k - 1) \o <<x>> \o SubSeq(l, k, Len(l))

\* The documents got from doc by reordering one list the simulator walks: the
\* specs, one spec's egress rules, or one rule's toEndpoints or toPorts.
ReorderedKey(d, k) == IF Has(d, k) THEN {[d EXCEPT ![k] = l] : l \in Reorderings(d[k])} ELSE {}

ReorderedRule(r) == ReorderedKey(r, "toEndpoints") \cup ReorderedKey(r, "toPorts")

\* The pairs <<i, x>> with x drawn from F(l[i]).
Indexed(l, F(_)) == UNION {{<<i, x>> : x \in F(l[i])} : i \in 1..Len(l)}

ReorderedSpec(s) ==
    ReorderedKey(s, "egress")
        \cup (IF Has(s, "egress")
              THEN {[s EXCEPT !.egress = ReplaceAt(s.egress, c[1], c[2])] :
                        c \in Indexed(s.egress, ReorderedRule)}
              ELSE {})

ReorderedDocuments(doc) ==
    ReorderedKey(doc, "specs")
        \cup (IF Has(doc, "specs")
              THEN {[doc EXCEPT !.specs = ReplaceAt(doc.specs, c[1], c[2])] :
                        c \in Indexed(doc.specs, ReorderedSpec)}
              ELSE {})
        \cup (IF Has(doc, "spec")
              THEN {[doc EXCEPT !.spec = s] : s \in ReorderedSpec(doc.spec)}
              ELSE {})

\* The documents got from doc by adding one more spec to `specs`, or one more
\* egress rule to one of its specs, at any position.
WithEgressAdded(s) ==
    IF Has(s, "egress")
    THEN {[s EXCEPT !.egress = InsertAt(s.egress, k, r)] :
            k \in 1..(Len(s.egress) + 1), r \in SimpleRules}
    ELSE {}

ExtendedDocuments(doc) ==
    IF Has(doc, "specs")
    THEN {[doc EXCEPT !.specs = InsertAt(doc.specs, k, s)] :
            k \in 1..(Len(doc.specs) + 1), s \in SimpleSpecs}
         \cup {[doc EXCEPT !.specs = ReplaceAt(doc.specs, c[1], c[2])] :
                c \in Indexed(doc.specs, WithEgressAdded)}
    ELSE {}

\* What the caller observes of a simulation: the status, or that it raised.
Outcome(r) == IF DidReturn(r) THEN r.status ELSE "raised"

OutcomeOn(doc) ==
    Outcome(simulate_policy_enforcement(query.src, query.dest, query.port, doc))

\* C5: any-match-allows. The status is the same for every reordering of the
\* specs, of a spec's egress rules and of a rule's toEndpoints or toPorts, and an
\* allowed connection stays allowed whatever other spec or rule is added.
AnyMatchAllows ==
    Simulated =>
        /\ \A d \in ReorderedDocuments(cnp) : OutcomeOn(d) = Outcome(sim)
        /\ Allowed => \A d \in ExtendedDocuments(cnp) : OutcomeOn(d) = "allowed"

\* C5 witness: two specs select src, the first one does not allow the
\* connection and the second one does.
AllowedBySecondSpec ==
    /\ Simulated
    /\ Allowed
    /\ Has(cnp, "specs")
    /\ Len(cnp.specs) = 2
    /\ SelectsApp(cnp.specs[1].endpointSelector, query.src)
    /\ SelectsApp(cnp.specs[2].endpointSelector, query.src)
    /\ SpecDecision(cnp.specs[1], query.src, query.dest, query.port) = NoDecision

----------------------------------------------------------------------------
(* converter.convert_rules *)

\* str.upper() on the letters flat rules use; other characters are unchanged.
UpperChar(c) ==
    CASE c = "a" -> "A" [] c = "c" -> "C" [] c = "d" -> "D" [] c = "i" -> "I"
      [] c = "m" -> "M" [] c = "p" -> "P" [] c = "s" -> "S" [] c = "t" -> "T"
      [] c = "u" -> "U" [] OTHER -> c

RECURSIVE Upper(_)
Upper(s) == IF s = "" THEN "" ELSE UpperChar(Head(s)) \o Upper(Tail(s))

Digit(d) ==
    CASE d = 0 -> "0" [] d = 1 -> "1" [] d = 2 -> "2" [] d = 3 -> "3" [] d = 4 -> "4"
      [] d = 5 -> "5" [] d = 6 -> "6" [] d = 7 -> "7" [] d = 8 -> "8" [] d = 9 -> "9"

\* str(n) of a non-negative integer: its decimal digits.
RECURSIVE Decimal(_)
Decimal(n) == IF n < 10 THEN Digit(n) ELSE Decimal(n \div 10) \o Digit(n % 10)

\* str(port) of a JSON port value: an integer is written in decimal, a string is kept.
Str(port) == IF IsInt(port) THEN Decimal(port.int) ELSE port.str

Written(doc) == [document |-> doc]
KeyError(k) == [raised |-> "KeyError", key |-> k]

\* A converter that opens a new group whenever the src changes from the rule before.
AppendToGroupOfLast(grouped, r) ==
    IF grouped # <<>> /\ grouped[Len(grouped)].src = r.src
    THEN [grouped EXCEPT ![Len(grouped)].entries = Append(@, r)]
    ELSE Append(grouped, [src |-> r.src, entries |-> <<r>>])

\* grouped[r["src"]].append(r): a defaultdict keeps its keys in insertion order.
\* The groups are a list of [src, entries].
AppendToGroup(grouped, r) ==
    IF \E k \in 1..Len(grouped) : grouped[k].src = r.src
    THEN [k \in 1..Len(grouped) |->
            IF grouped[k].src = r.src
            THEN [grouped[k] EXCEPT !.entries = Append(@, r)]
            ELSE grouped[k]]
    ELSE Append(grouped, [src |-> r.src, entries |-> <<r>>])

\* `for r in rules: grouped[r["src"]].append(r)`; r["src"] raises KeyError.
RECURSIVE GroupRules(_, _, _)
GroupRules(rs, i, grouped) ==
    IF i > Len(rs) THEN [grouped |-> grouped]
    ELSE IF ~Has(rs[i], "src") THEN KeyError("src")
    ELSE GroupRules(rs, i + 1, AppendToGroup(grouped, rs[i]))

\* The keys the egress rule literal reads, in evaluation order.
MissingKey(e) ==
    IF ~Has(e, "dest") THEN {"dest"}
    ELSE IF ~Has(e, "port") THEN {"port"}
    ELSE IF ~Has(e, "proto") THEN {"proto"}
    ELSE {}

EgressRuleOf(e) ==
    [toEndpoints |-> <<[matchLabels |-> [app |-> e.dest]]>>,
     toPorts |-> <<[ports |-> <<[port |-> PyStr(Str(e.port)), protocol |-> Upper(e.proto)]>>]>>]

\* `for e in entries: egress_rules.append({...})`
RECURSIVE EgressRulesOf(_, _, _)
EgressRulesOf(entries, i, egress_rules) ==
    IF i > Len(entries) THEN [egress |-> egress_rules]
    ELSE IF MissingKey(entries[i]) # {} THEN KeyError(CHOOSE k \in MissingKey(entries[i]) : TRUE)
    ELSE EgressRulesOf(entries, i + 1, Append(egress_rules, EgressRuleOf(entries[i])))

\* `for src, entries in grouped.items(): ... cnp["specs"].append({...})`
RECURSIVE SpecsOfGroups(_, _, _)
SpecsOfGroups(grouped, k, specs) ==
    IF k > Len(grouped) THEN [specs |-> specs]
    ELSE LET e == EgressRulesOf(grouped[k].entries, 1, <<>>)
         IN  IF DidRaise(e) THEN e
             ELSE SpecsOfGroups(grouped, k + 1,
                    Append(specs, [endpointSelector |-> [matchLabels |-> [app |-> grouped[k].src]],
                                   egress |-> e.egress]))

\* A converter that leaves out `specs` when there is nothing to put in it.
GeneratedPolicyWithoutEmptySpecs(specs) ==
    IF specs = <<>>
    THEN [apiVersion |-> "cilium.io/v2",
          kind |-> "CiliumNetworkPolicy",
          metadata |-> [name |-> "generated-policy"]]
    ELSE [apiVersion |-> "cilium.io/v2",
          kind |-> "CiliumNetworkPolicy",
          metadata |-> [name |-> "generated-policy"],
          specs |-> specs]

GeneratedPolicy(specs) ==
    [apiVersion |-> "cilium.io/v2",
     kind |-> "CiliumNetworkPolicy",
     metadata |-> [name |-> "generated-policy"],
     specs |-> specs]

\* convert_rules on the rules read from the JSON file: the document it hands to
\* yaml.dump, or the exception that ends it before anything is written.
convert_rules(rs) ==
    LET g == GroupRules(rs, 1, <<>>)
    IN  IF DidRaise(g) THEN g
        ELSE LET sp == SpecsOfGroups(g.grouped, 1, <<>>)
             IN  IF DidRaise(sp) THEN sp
                 ELSE Written(GeneratedPolicy(sp.specs))

----------------------------------------------------------------------------
(* visualizer._extract_connections *)

RECURSIVE Concat(_)
Concat(ls) == IF ls = <<>> THEN <<>> ELSE Head(ls) \o Concat(Tail(ls))

\* x.get("matchLabels", {}).get("app") or fallback
AppOr(selector, fallback) ==
    LET labels == Get(selector, "matchLabels", EmptyDict)
    IN  IF Has(labels, "app") /\ labels.app # "" THEN labels.app ELSE fallback

Connection(src, dest, port, protocol) ==
    [src |-> src, dest |-> dest, port |-> port, protocol |-> protocol,
     connection_type |-> "egress"]

\* The connections one endpoint of one egress rule yields.
EndpointConnections(src, egress, endpoint) ==
    LET dest == AppOr(endpoint, "unknown-dest")
        port_rules == Get(egress, "toPorts", <<>>)
    IN  IF Truthy(port_rules)
        THEN Concat([i \in 1..Len(port_rules) |->
                LET ports == Get(port_rules[i], "ports", <<>>)
                IN  [j \in 1..Len(ports) |->
                        Connection(src, dest,
                                   Get(ports[j], "port", PyStr("unknown")),
                                   Get(ports[j], "protocol", "TCP"))]])
        ELSE <<Connection(src, dest, PyStr("any"), "any")>>

EgressConnections(src, egress) ==
    LET dest_endpoints == Get(egress, "toEndpoints", <<>>)
    IN  Concat([i \in 1..Len(dest_endpoints) |-> EndpointConnections(src, egress, dest_endpoints[i])])

\* `if not spec: continue`, then the loop over the spec's egress rules.
SpecConnections(spec) ==
    IF ~Truthy(spec) THEN <<>>
    ELSE LET src == AppOr(Get(spec, "endpointSelector", EmptyDict), "unknown-source")
             egress_rules == Get(spec, "egress", <<>>)
         IN  Concat([i \in 1..Len(egress_rules) |-> EgressConnections(src, egress_rules[i])])

extract_connections(doc) ==
    LET specs == IF Has(doc, "specs") /\ Truthy(doc.specs) THEN doc.specs
                 ELSE IF Has(doc, "spec") /\ Truthy(doc.spec) THEN <<doc.spec>>
                 ELSE <<>>
    IN  Concat([i \in 1..Len(specs) |-> SpecConnections(specs[i])])

----------------------------------------------------------------------------
(* The converter on one list of flat rules, then the extractor on its output *)

MaxRules == 3        \* longest list of flat rules

FlatSrcs == {"A", "B", ""}
FlatDests == {"B", "C"}
\* port and proto as JSON gives them: an integer or a string, any letter case.
FlatPortProtos == {<<PyInt(80), "tcp">>, <<PyStr("443"), "Udp">>}

FlatRule(s, d, pp) == [src |-> s, dest |-> d, port |-> pp[1], proto |-> pp[2]]

CompleteRules == {FlatRule(s, d, pp) : s \in FlatSrcs, d \in FlatDests, pp \in FlatPortProtos}

\* Rules that lack one required field.
IncompleteRules ==
    {[dest |-> "B", port |-> PyInt(80), proto |-> "tcp"],
     [src |-> "A", port |-> PyInt(80), proto |-> "tcp"],
     [src |-> "A", dest |-> "B", proto |-> "tcp"],
     [src |-> "A", dest |-> "B", port |-> PyInt(80)]}

RuleLists == Lists(CompleteRules \cup IncompleteRules, 0, MaxRules)

IdleSim == cnp = EmptyDict /\ query = NotRun /\ sim = NotRun

InitConv ==
    /\ pc = "read"
    /\ rules \in RuleLists
    /\ converted = NotRun
    /\ connections = NotRun
    /\ IdleSim
    /\ IdleResult
    /\ IdleFile
    /\ IdleApp

\* convert_rules after json.load returned the rules.
Convert ==
    /\ pc = "read"
    /\ converted' = convert_rules(rules)
    /\ pc' = IF DidRaise(converted') THEN "failed" ELSE "converted"
    /\ UNCHANGED <<rules, connections, simVars, appVars, resultVars, fileVars>>

\* _extract_connections on the converted policy.
Extract ==
    /\ pc = "converted"
    /\ connections' = extract_connections(converted.document)
    /\ pc' = "extracted"
    /\ UNCHANGED <<rules, converted, simVars, appVars, resultVars, fileVars>>

NextConv == Convert \/ Extract

SpecConv == InitConv /\ [][NextConv]_vars

----------------------------------------------------------------------------
(* What the converter's contract speaks of, stated without the converter *)

\* The values the flat rules of this model carry, stringified and upper-cased.
Stringified(port) == CASE port = PyInt(80) -> "80" [] port = PyStr("443") -> "443"
UpperCased(proto) == CASE proto = "tcp" -> "TCP" [] proto = "Udp" -> "UDP"

DidConvert == Has(converted, "document")

\* The rules that are the first of their src, and the rules of the same src.
FirstOfSrc == {i \in 1..Len(rules) : \A j \in 1..(i - 1) : rules[j].src # rules[i].src}
SameSrc(i) == {j \in 1..Len(rules) : rules[j].src = rules[i].src}

\* How many members of the set of indices S are at most i.
RankIn(S, i) == Cardinality({j \in S : j <= i})

ExpectedEgressRule(r) ==
    [toEndpoints |-> <<[matchLabels |-> [app |-> r.dest]]>>,
     toPorts |-> <<[ports |-> <<[port |-> PyStr(Stringified(r.port)),
                                 protocol |-> UpperCased(r.proto)]>>]>>]

\* C6: one spec per distinct src in order of first occurrence, selecting
\* {app: src}, whose egress holds one rule per input entry of that src in input
\* order, to {app: dest} on one port entry (port stringified, protocol upper-cased).
GroupedBySrc ==
    DidConvert =>
        LET specs == converted.document.specs
        IN  /\ Len(specs) = Cardinality(FirstOfSrc)
            /\ \A i \in FirstOfSrc :
                LET spec == specs[RankIn(FirstOfSrc, i)]
                IN  /\ DOMAIN spec = {"endpointSelector", "egress"}
                    /\ spec.endpointSelector = [matchLabels |-> [app |-> rules[i].src]]
                    /\ Len(spec.egress) = Cardinality(SameSrc(i))
                    /\ \A j \in SameSrc(i) :
                        spec.egress[RankIn(SameSrc(i), j)] = ExpectedEgressRule(rules[j])

\* C6 witness: three rules converted, the third of the src of the first, with
\* another src between them.
InterleavedSrcsConverted ==
    /\ DidConvert
    /\ Len(rules) = 3
    /\ rules[1].src = rules[3].src
    /\ rules[1].src # rules[2].src
    /\ rules[1] # rules[3]

\* Where the src of rule j first occurs.
FirstIndex(j) == CHOOSE i \in FirstOfSrc : rules[i].src = rules[j].src

\* The place of rule j in the stable grouping by src: after every rule of a src
\* that first occurs earlier, and after the earlier rules of its own src.
PlaceOf(j) ==
    Cardinality({k \in 1..Len(rules) :
        \/ FirstIndex(k) < FirstIndex(j)
        \/ FirstIndex(k) = FirstIndex(j) /\ k <= j})

ExpectedConnection(r) ==
    [src |-> r.src, dest |-> r.dest, port |-> PyStr(Stringified(r.port)),
     protocol |-> UpperCased(r.proto)]

Tuple(c) == [src |-> c.src, dest |-> c.dest, port |-> c.port, protocol |-> c.protocol]

RoundTripHolds ==
    /\ Len(connections) = Len(rules)
    /\ \A j \in 1..Len(rules) : Tuple(connections[PlaceOf(j)]) = ExpectedConnection(rules[j])

\* C7: round trip. The connections extracted from the converted document are the
\* tuples (src, dest, str(port), upper(proto)) of the input rules, one per rule,
\* in the order of the stable grouping by src.
RoundTrip == (pc = "extracted") => RoundTripHolds

\* The round trip for rules that all name their src.
RoundTripOfNamedSrcs ==
    (pc = "extracted" /\ \A j \in 1..Len(rules) : rules[j].src # "") => RoundTripHolds

\* The rules that lack a required field.
Incomplete == {i \in 1..Len(rules) : ~({"src", "dest", "port", "proto"} \subseteq DOMAIN rules[i])}

\* C8: a rule lacking a required field makes conversion fail with a
\* ConversionError that identifies the index of an offending rule, and no
\* document is produced.
ConversionErrorNamesRule ==
    (pc # "read" /\ Incomplete # {}) =>
        /\ ~DidConvert
        /\ DidRaise(converted)
        /\ converted.raised = "ConversionError"
        /\ Has(converted, "index")
        /\ converted.index \in Incomplete

\* What does hold of a rule lacking a field: conversion raises and writes nothing.
IncompleteRuleWritesNothing ==
    (pc # "read" /\ Incomplete # {}) => (DidRaise(converted) /\ ~DidConvert)

\* C9: an empty rule list converts to the fixed document with no specs.
EmptyRulesConvert ==
    (pc # "read" /\ rules = <<>>) =>
        converted = [document |->
                        [apiVersion |-> "cilium.io/v2",
                         kind |-> "CiliumNetworkPolicy",
                         metadata |-> [name |-> "generated-policy"],
                         specs |-> <<>>]]

\* C9 witness: the empty rule list went through the converter.
EmptyRulesConverted == pc = "converted" /\ rules = <<>>

----------------------------------------------------------------------------
(* validator.ValidationResult *)

MaxMessages == 2     \* longest list a ValidationResult collects

SyntaxMessages == {"YAML syntax error", "File not found"}
SchemaMessages == {"Schema validation error at 'root'", "Schema validation error at 'kind'"}
SuggestionMessages == {"Use either 'spec' or 'specs', not both", "Empty endpointSelector targets all pods"}
LintWarnings ==
    {[line |-> 1, column |-> 1, level |-> "warning", message |-> "trailing spaces", rule |-> "trailing-spaces"],
     [line |-> 0, column |-> 0, level |-> "error", message |-> "Linting failed", rule |-> "yamllint"]}

\* ValidationResult.__init__
InitResult ==
    /\ pc = "result"
    /\ is_valid = TRUE
    /\ yaml_syntax_errors = <<>>
    /\ yaml_lint_warnings = <<>>
    /\ schema_errors = <<>>
    /\ suggestions = <<>>
    /\ IdleSim
    /\ IdleConv
    /\ IdleFile
    /\ IdleApp

add_yaml_syntax_error(error) ==
    /\ Len(yaml_syntax_errors) < MaxMessages
    /\ is_valid' = FALSE
    /\ yaml_syntax_errors' = Append(yaml_syntax_errors, error)
    /\ UNCHANGED <<yaml_lint_warnings, schema_errors, suggestions>>

add_yaml_lint_warning(warning) ==
    /\ Len(yaml_lint_warnings) < MaxMessages
    /\ yaml_lint_warnings' = Append(yaml_lint_warnings, warning)
    /\ UNCHANGED <<is_valid, yaml_syntax_errors, schema_errors, suggestions>>

\* A result that records a schema error and still calls itself valid.
add_schema_error_keeping_valid(error) ==
    /\ Len(schema_errors) < MaxMessages
    /\ schema_errors' = Append(schema_errors, error)
    /\ UNCHANGED <<is_valid, yaml_syntax_errors, yaml_lint_warnings, suggestions>>

add_schema_error(error) ==
    /\ Len(schema_errors) < MaxMessages
    /\ is_valid' = FALSE
    /\ schema_errors' = Append(schema_errors, error)
    /\ UNCHANGED <<yaml_syntax_errors, yaml_lint_warnings, suggestions>>

add_suggestion(suggestion) ==
    /\ Len(suggestions) < MaxMessages
    /\ suggestions' = Append(suggestions, suggestion)
    /\ UNCHANGED <<is_valid, yaml_syntax_errors, yaml_lint_warnings, schema_errors>>

AddYamlSyntaxError ==
    /\ \E error \in SyntaxMessages : add_yaml_syntax_error(error)
    /\ UNCHANGED <<pc, simVars, appVars, convVars, fileVars>>

AddYamlLintWarning ==
    /\ \E warning \in LintWarnings : add_yaml_lint_warning(warning)
    /\ UNCHANGED <<pc, simVars, appVars, convVars, fileVars>>

AddSchemaError ==
    /\ \E error \in SchemaMessages : add_schema_error(error)
    /\ UNCHANGED <<pc, simVars, appVars, convVars, fileVars>>

AddSuggestion ==
    /\ \E suggestion \in SuggestionMessages : add_suggestion(suggestion)
    /\ UNCHANGED <<pc, simVars, appVars, convVars, fileVars>>

NextResult == AddYamlSyntaxError \/ AddYamlLintWarning \/ AddSchemaError \/ AddSuggestion

SpecResult == InitResult /\ [][NextResult]_vars

\* C10: is_valid is true exactly when both error lists are empty, and a step
\* that adds a warning or a suggestion leaves is_valid and both error lists as
\* they were.
ValidIffNoErrors ==
    /\ [](is_valid <=> (yaml_syntax_errors = <<>> /\ schema_errors = <<>>))
    /\ [][(yaml_lint_warnings' # yaml_lint_warnings \/ suggestions' # suggestions)
            => /\ is_valid' = is_valid
               /\ yaml_syntax_errors' = yaml_syntax_errors
               /\ schema_errors' = schema_errors]_vars

\* C10 witness: warnings and suggestions were added to a result that is still valid.
ValidWithWarnings ==
    /\ pc = "result"
    /\ yaml_lint_warnings # <<>>
    /\ suggestions # <<>>
    /\ yaml_syntax_errors = <<>>
    /\ schema_errors = <<>>
    /\ is_valid

----------------------------------------------------------------------------
(* validator.CILIUM_NETWORK_POLICY_SCHEMA as Draft7Validator.iter_errors reads it *)

\* One entry of schema_errors, "Schema validation error at '<path>': <message>":
\* the path of the offending value (each element as str() prints it), the schema
\* keyword that rejects it and the names its message quotes.
SchemaError(path, keyword, about) == [path |-> path, keyword |-> keyword, about |-> about]

\* "required": one error for every listed key the mapping lacks, in list order.
RequiredErrors(path, d, keys) ==
    LET missing == SelectSeq(keys, LAMBDA k : ~Has(d, k))
    IN  [i \in 1..Len(missing) |-> SchemaError(path, "required", {missing[i]})]

\* "type": "string" with "enum", on a string.
EnumErrors(path, value, allowed) ==
    IF value \in allowed THEN <<>> ELSE <<SchemaError(path, "enum", {value})>>

\* A schema whose objects are open: "additionalProperties": False left out.
ClosedErrors_left_out(path, d, properties) == <<>>

\* "additionalProperties": False: one error naming every key that is not a property.
ClosedErrors(path, d, properties) ==
    IF DOMAIN d \subseteq properties THEN <<>>
    ELSE <<SchemaError(path, "additionalProperties", DOMAIN d \ properties)>>

\* "type": "array" with "items": the errors of each item, under its index.
ItemsErrors(path, l, ItemErrors(_, _)) ==
    Concat([i \in 1..Len(l) |-> ItemErrors(path \o <<Decimal(i - 1)>>, l[i])])

\* The errors of the value under key k, if the mapping has the key.
PropertyErrors(path, d, k, ValueErrors(_, _)) ==
    IF Has(d, k) THEN ValueErrors(path \o <<k>>, d[k]) ELSE <<>>

LowerAlnum ==
    {"a", "b", "c", "d", "e", "f", "g", "h", "i", "j", "k", "l", "m", "n", "o", "p", "q",
     "r", "s", "t", "u", "v", "w", "x", "y", "z", "0", "1", "2", "3", "4", "5", "6", "7",
     "8", "9"}

RECURSIVE AllIn(_, _)
AllIn(s, chars) == s = "" \/ (Head(s) \in chars /\ AllIn(Tail(s), chars))

RECURSIVE Last(_)
Last(s) == IF Tail(s) = "" THEN Head(s) ELSE Last(Tail(s))

\* re.search("^[a-z0-9]([a-z0-9\\-]*[a-z0-9])?$", name), for a name without a
\* line break.
MatchesNamePattern(name) ==
    /\ name # ""
    /\ Head(name) \in LowerAlnum
    /\ Last(name) \in LowerAlnum
    /\ AllIn(name, LowerAlnum \cup {"-"})

\* metadata: "required": ["name"], then the pattern of name.
NameErrors(path, name) ==
    IF MatchesNamePattern(name) THEN <<>> ELSE <<SchemaError(path, "pattern", {name})>>

\* The keys and path elements of this model in Python's order: indices by
\* number, keys as strings.
PathElements ==
    <<"0", "1", "2", "3", "4", "5", "6", "7", "8", "9", "annotations", "apiVersion",
      "egress", "egressDeny", "endpointSelector", "fromEndpoints", "ingress", "ingressDeny",
      "kind", "labels", "metadata", "name", "nodeSelector", "note", "port", "ports",
      "protocol", "spec", "specs", "team", "toEndpoints", "toPorts">>

\* labels, annotations: "additionalProperties": {"type": "string"}, one error
\* for every value that is not a string.
StringValuedErrors(path, d) ==
    LET keys == SelectSeq(PathElements, LAMBDA k : Has(d, k) /\ ~IsStr(d[k]))
    IN  [i \in 1..Len(keys) |-> SchemaError(path \o <<keys[i]>>, "type", {"string"})]

MetadataErrors(path, metadata) ==
    RequiredErrors(path, metadata, <<"name">>)
        \o PropertyErrors(path, metadata, "name", NameErrors)
        \o PropertyErrors(path, metadata, "labels", StringValuedErrors)
        \o PropertyErrors(path, metadata, "annotations", StringValuedErrors)

\* port: "oneOf" a string, or an integer from 1 to 65535.
PortValueErrors(path, port) ==
    IF IsStr(port) \/ (IsInt(port) /\ port.int >= 1 /\ port.int <= 65535) THEN <<>>
    ELSE <<SchemaError(path, "oneOf", {})>>

Protocols == {"TCP", "UDP", "SCTP", "ICMP", "ICMPv6", "ANY"}

\* An item of PortRule.ports.
PortEntryErrors(path, p) ==
    RequiredErrors(path, p, <<"port", "protocol">>)
        \o PropertyErrors(path, p, "port", PortValueErrors)
        \o PropertyErrors(path, p, "protocol", LAMBDA q, v : EnumErrors(q, v, Protocols))

\* definitions.PortRule
PortRuleErrors(path, port_rule) ==
    PropertyErrors(path, port_rule, "ports", LAMBDA q, l : ItemsErrors(q, l, PortEntryErrors))
        \o ClosedErrors(path, port_rule, {"ports", "rules"})

\* definitions.LabelSelector; the labels of this model are strings, as
\* matchLabels asks.
LabelSelectorErrors(path, selector) ==
    ClosedErrors(path, selector, {"matchLabels", "matchExpressions"})

\* definitions.EgressRule
EgressRuleErrors(path, egress) ==
    PropertyErrors(path, egress, "toEndpoints",
                   LAMBDA q, l : ItemsErrors(q, l, LabelSelectorErrors))
        \o PropertyErrors(path, egress, "toPorts", LAMBDA q, l : ItemsErrors(q, l, PortRuleErrors))
        \o ClosedErrors(path, egress,
                {"toEndpoints", "toRequires", "toCIDR", "toCIDRSet", "toEntities",
                 "toServices", "toPorts", "toFQDNs"})

\* definitions.IngressRule, IngressDenyRule and EgressDenyRule: the selectors
\* under `endpoints`, the port rules, and the closed set of properties.
RuleErrors(path, rule, endpoints, properties) ==
    PropertyErrors(path, rule, endpoints, LAMBDA q, l : ItemsErrors(q, l, LabelSelectorErrors))
        \o PropertyErrors(path, rule, "toPorts", LAMBDA q, l : ItemsErrors(q, l, PortRuleErrors))
        \o ClosedErrors(path, rule, properties)

IngressRuleErrors(path, rule) ==
    RuleErrors(path, rule, "fromEndpoints",
               {"fromEndpoints", "fromRequires", "fromCIDR", "fromCIDRSet", "fromEntities",
                "toPorts"})

IngressDenyRuleErrors(path, rule) ==
    RuleErrors(path, rule, "fromEndpoints",
               {"fromEndpoints", "fromCIDR", "fromEntities", "toPorts"})

EgressDenyRuleErrors(path, rule) ==
    RuleErrors(path, rule, "toEndpoints", {"toEndpoints", "toCIDR", "toEntities", "toPorts"})

\* definitions.CiliumNetworkPolicySpec
PolicySpecErrors(path, spec) ==
    PropertyErrors(path, spec, "endpointSelector", LabelSelectorErrors)
        \o PropertyErrors(path, spec, "nodeSelector", LabelSelectorErrors)
        \o PropertyErrors(path, spec, "ingress", LAMBDA q, l : ItemsErrors(q, l, IngressRuleErrors))
        \o PropertyErrors(path, spec, "egress", LAMBDA q, l : ItemsErrors(q, l, EgressRuleErrors))
        \o PropertyErrors(path, spec, "ingressDeny",
                          LAMBDA q, l : ItemsErrors(q, l, IngressDenyRuleErrors))
        \o PropertyErrors(path, spec, "egressDeny",
                          LAMBDA q, l : ItemsErrors(q, l, EgressDenyRuleErrors))
        \o ClosedErrors(path, spec,
                {"endpointSelector", "nodeSelector", "ingress", "egress", "ingressDeny",
                 "egressDeny"})

\* "oneOf": [{"required": ["spec"]}, {"required": ["specs"]}]: an error unless
\* exactly one of the two is satisfied. `required` holds of every value that is
\* not a mapping.
OneOfErrors(satisfied) ==
    IF Cardinality(satisfied) = 1 THEN <<>> ELSE <<SchemaError(<<>>, "oneOf", satisfied)>>

\* What yaml.safe_load gives: None, a mapping or a sequence.
Mapping(d) == [mapping |-> d]
Sequence(l) == [sequence |-> l]
IsMapping(x) == Has(x, "mapping")
IsSequence(x) == Has(x, "sequence")

\* The errors in the order the keywords of the root schema find them: type,
\* required, properties, oneOf.
iter_errors(data) ==
    IF IsMapping(data)
    THEN LET d == data.mapping
         IN  RequiredErrors(<<>>, d, <<"apiVersion", "kind", "metadata">>)
                \o PropertyErrors(<<>>, d, "apiVersion",
                                  LAMBDA q, v : EnumErrors(q, v, {"cilium.io/v2"}))
                \o PropertyErrors(<<>>, d, "kind",
                                  LAMBDA q, v : EnumErrors(q, v, {"CiliumNetworkPolicy"}))
                \o PropertyErrors(<<>>, d, "metadata", MetadataErrors)
                \o PropertyErrors(<<>>, d, "spec", PolicySpecErrors)
                \o PropertyErrors(<<>>, d, "specs",
                                  LAMBDA q, l : ItemsErrors(q, l, PolicySpecErrors))
                \o OneOfErrors({k \in {"spec", "specs"} : Has(d, k)})
    ELSE <<SchemaError(<<>>, "type", {"object"})>> \o OneOfErrors({"spec", "specs"})

Rank(x) == CHOOSE i \in 1..Len(PathElements) : PathElements[i] = x

\* p < q on deques: the first differing element decides, a proper prefix is smaller.
RECURSIVE PathBefore(_, _)
PathBefore(p, q) ==
    IF q = <<>> THEN FALSE
    ELSE IF p = <<>> THEN TRUE
    ELSE IF Head(p) = Head(q) THEN PathBefore(Tail(p), Tail(q))
    ELSE Rank(Head(p)) < Rank(Head(q))

\* sorted(errors, key=lambda e: e.path): a stable sort.
RECURSIVE SortedByPath(_)
SortedByPath(errors) ==
    IF errors = <<>> THEN <<>>
    ELSE LET n == Len(errors)
             sorted == SortedByPath(SubSeq(errors, 1, n - 1))
             k == Cardinality({i \in 1..Len(sorted) : ~PathBefore(errors[n].path, sorted[i].path)})
         IN  SubSeq(sorted, 1, k) \o <<errors[n]>> \o SubSeq(sorted, k + 1, Len(sorted))

\* A validator that reports the first violation only.
validate_cilium_schema_fail_fast(data) ==
    LET errors == SortedByPath(iter_errors(data))
    IN  IF errors = <<>> THEN <<>> ELSE <<Head(errors)>>

validate_cilium_schema(data) == SortedByPath(iter_errors(data))

----------------------------------------------------------------------------
(* validator.validate_policy *)

BothKeysSuggestion == "Use either 'spec' (single policy) or 'specs' (multiple policies), not both"

\* The suggestions about one entry of the enumerated specs; i counts from 0.
SpecSuggestions(d, i, spec) ==
    IF ~Truthy(spec) THEN <<>>
    ELSE LET spec_name == IF Has(d, "specs") THEN "spec[" \o Decimal(i) \o "]" ELSE "spec"
             endpoint_selector == Get(spec, "endpointSelector", EmptyDict)
         IN  (IF Has(spec, "ingress") /\ ~Truthy(spec.ingress)
              THEN <<spec_name \o ": Empty ingress rules - consider removing or adding rules">>
              ELSE <<>>)
             \o (IF Has(spec, "egress") /\ ~Truthy(spec.egress)
                 THEN <<spec_name \o ": Empty egress rules - consider removing or adding rules">>
                 ELSE <<>>)
             \o (IF ~Has(spec, "endpointSelector")
                 THEN <<spec_name \o ": Missing endpointSelector - policies should target specific endpoints">>
                 ELSE <<>>)
             \o (IF /\ ~Truthy(Get(endpoint_selector, "matchLabels", EmptyDict))
                    /\ ~Truthy(Get(endpoint_selector, "matchExpressions", <<>>))
                 THEN <<spec_name \o ": Empty endpointSelector targets all pods - consider being more specific">>
                 ELSE <<>>)

generate_suggestions(data) ==
    IF ~IsMapping(data) THEN <<>>
    ELSE LET d == data.mapping
             specs == IF \/ Has(d, "specs") /\ Truthy(d.specs)
                         \/ Has(d, "spec") /\ Truthy(d.spec)
                      THEN IF Has(d, "specs") THEN d.specs ELSE <<d.spec>>
                      ELSE <<>>
         IN  IF Has(d, "kind") /\ d.kind = "CiliumNetworkPolicy"
             THEN (IF Has(d, "specs") /\ Has(d, "spec") THEN <<BothKeysSuggestion>> ELSE <<>>)
                  \o Concat([i \in 1..Len(specs) |-> SpecSuggestions(d, i - 1, specs[i])])
             ELSE <<>>

\* A file: absent, present but unreadable as YAML (a YAMLError, or an error of
\* open() such as IsADirectoryError), or present with the value safe_load gives.
Unreadable(exc) == [exists |-> TRUE, error |-> exc]
Parsed(content) == [exists |-> TRUE, parsed |-> content]
DidParse(f) == Has(f, "parsed")

\* A validate_yaml_syntax that calls an unparseable file valid.
validate_yaml_syntax_calling_valid(f) ==
    IF ~f.exists THEN [valid |-> TRUE, errors |-> <<"File not found">>, parsed |-> None]
    ELSE IF DidParse(f) THEN [valid |-> TRUE, errors |-> <<>>, parsed |-> f.parsed]
    ELSE IF f.error = "YAMLError"
         THEN [valid |-> TRUE, errors |-> <<"YAML syntax error">>, parsed |-> None]
         ELSE [valid |-> TRUE, errors |-> <<"Error reading file">>, parsed |-> None]

validate_yaml_syntax(f) ==
    IF ~f.exists THEN [valid |-> FALSE, errors |-> <<"File not found">>, parsed |-> None]
    ELSE IF DidParse(f) THEN [valid |-> TRUE, errors |-> <<>>, parsed |-> f.parsed]
    ELSE IF f.error = "YAMLError"
         THEN [valid |-> FALSE, errors |-> <<"YAML syntax error">>, parsed |-> None]
         ELSE [valid |-> FALSE, errors |-> <<"Error reading file">>, parsed |-> None]

\* bool(parsed_data)
ParsedTruthy(data) ==
    \/ IsMapping(data) /\ Truthy(data.mapping)
    \/ IsSequence(data) /\ Truthy(data.sequence)

\* ValidationResult() and its add_ methods called once per element of a list.
NewResult ==
    [is_valid |-> TRUE, yaml_syntax_errors |-> <<>>, yaml_lint_warnings |-> <<>>,
     schema_errors |-> <<>>, suggestions |-> <<>>]

WithSyntaxErrors(result, errors) ==
    IF errors = <<>> THEN result
    ELSE [result EXCEPT !.is_valid = FALSE, !.yaml_syntax_errors = @ \o errors]

WithLintWarnings(result, warnings) == [result EXCEPT !.yaml_lint_warnings = @ \o warnings]

WithSchemaErrors(result, errors) ==
    IF errors = <<>> THEN result
    ELSE [result EXCEPT !.is_valid = FALSE, !.schema_errors = @ \o errors]

\* An add_suggestion that marks the result invalid.
WithSuggestions_invalidating(result, more) ==
    IF more = <<>> THEN result
    ELSE [result EXCEPT !.is_valid = FALSE, !.suggestions = @ \o more]

WithSuggestions(result, more) == [result EXCEPT !.suggestions = @ \o more]

\* validate_policy on file f, lint being what lint_yaml_style reports on it.
validate_policy(f, lint) ==
    IF ~f.exists THEN WithSyntaxErrors(NewResult, <<"File not found">>)
    ELSE LET syntax == validate_yaml_syntax(f)
             checked == WithSyntaxErrors(NewResult, syntax.errors)
         IN  IF ~syntax.valid THEN checked
             ELSE LET linted == WithLintWarnings(checked, lint)
                  IN  IF ParsedTruthy(syntax.parsed)
                      THEN WithSuggestions(
                               WithSchemaErrors(linted, validate_cilium_schema(syntax.parsed)),
                               generate_suggestions(syntax.parsed))
                      ELSE linted

----------------------------------------------------------------------------
(* The validator on one file *)

\* metadata with labels and annotations (their values scalars, tagged as the
\* ports are): string-valued, and with a label that is a number.
LabelledMetadata ==
    {[name |-> "generated-policy", labels |-> [team |-> PyStr("core"), note |-> PyStr("any")],
      annotations |-> [note |-> PyStr("reviewed")]],
     [name |-> "generated-policy", labels |-> [team |-> PyInt(1)]]}

\* Top-level keys: each of apiVersion, kind and metadata absent, right or wrong.
Headers ==
    {a @@ k @@ m :
        a \in OptField("apiVersion", {"cilium.io/v2", "wrong"}),
        k \in OptField("kind", {"CiliumNetworkPolicy", "wrong"}),
        m \in OptField("metadata", {[name |-> "generated-policy"], [name |-> "Bad_Name"], EmptyDict}
                                        \cup LabelledMetadata)}

GoodHeader ==
    [apiVersion |-> "cilium.io/v2", kind |-> "CiliumNetworkPolicy",
     metadata |-> [name |-> "generated-policy"]]

\* A spec with a rule of each kind.
FullSpec ==
    [endpointSelector |-> AppSelector("A"),
     ingress |-> <<[fromEndpoints |-> <<AppSelector("C")>>]>>,
     egress |-> <<[toEndpoints |-> <<AppSelector("B")>>,
                  toPorts |-> <<[ports |-> <<[port |-> PyStr("80"), protocol |-> "TCP"]>>]>>]>>,
     ingressDeny |-> <<[fromEndpoints |-> <<AppSelector("B")>>]>>,
     egressDeny |-> <<[toEndpoints |-> <<AppSelector("C")>>]>>]

\* A mapping with one more key, which no schema names.
WithExtra(d) == d @@ [extra |-> "x"]

\* FullSpec with the extra key in one of its objects: the spec, a selector, a
\* rule of each kind, a selector of a rule, a port rule, a port entry.
ExtraKeySpecs ==
    {WithExtra(FullSpec),
     [FullSpec EXCEPT !.endpointSelector = WithExtra(@)],
     [FullSpec EXCEPT !.ingress[1] = WithExtra(@)],
     [FullSpec EXCEPT !.egress[1] = WithExtra(@)],
     [FullSpec EXCEPT !.ingressDeny[1] = WithExtra(@)],
     [FullSpec EXCEPT !.egressDeny[1] = WithExtra(@)],
     [FullSpec EXCEPT !.egress[1].toEndpoints[1] = WithExtra(@)],
     [FullSpec EXCEPT !.ingress[1].fromEndpoints[1] = WithExtra(@)],
     [FullSpec EXCEPT !.egress[1].toPorts[1] = WithExtra(@)],
     [FullSpec EXCEPT !.egress[1].toPorts[1].ports[1] = WithExtra(@)]}

\* Specs the schema accepts: a complete one, one with an empty selector and no
\* rules, one whose selector has empty matchLabels, one with a rule of each
\* kind, an empty one.
AcceptedSpecs ==
    {[endpointSelector |-> AppSelector("A"),
      egress |-> <<[toEndpoints |-> <<AppSelector("B")>>,
                   toPorts |-> <<[ports |-> <<[port |-> PyStr("80"), protocol |-> "TCP"]>>]>>]>>],
     [endpointSelector |-> EmptyDict, egress |-> <<>>],
     [endpointSelector |-> [matchLabels |-> EmptyDict]],
     FullSpec,
     EmptyDict}

\* Specs the schema rejects: a port entry without port and with a protocol
\* outside the enum, and a port number out of range.
RejectedSpecs ==
    {[endpointSelector |-> AppSelector("A"),
      egress |-> <<[toEndpoints |-> <<AppSelector("B")>>,
                   toPorts |-> <<[ports |-> <<[protocol |-> "tcp"]>>]>>]>>],
     [endpointSelector |-> AppSelector("B"),
      egress |-> <<[toEndpoints |-> <<AppSelector("C")>>,
                   toPorts |-> <<[ports |-> <<[port |-> PyInt(0), protocol |-> "UDP"]>>]>>]>>]}

ValidatedSpecs == AcceptedSpecs \cup RejectedSpecs

Bodies ==
    {EmptyDict}
        \cup {[spec |-> s] : s \in ValidatedSpecs}
        \cup {[specs |-> l] : l \in Lists(ValidatedSpecs, 0, MaxSpecs)}
        \cup {[spec |-> s, specs |-> l] : s \in ValidatedSpecs, l \in Lists(ValidatedSpecs, 0, 1)}
        \cup {[spec |-> s] : s \in ExtraKeySpecs}
        \cup {[specs |-> <<a, s>>] : a \in AcceptedSpecs, s \in ExtraKeySpecs}

PolicyFiles ==
    {NoFile, Unreadable("YAMLError"), Unreadable("IsADirectoryError"),
     Parsed(None), Parsed(Sequence(<<>>)), Parsed(Sequence(<<"policy">>))}
        \cup {Parsed(Mapping(h @@ b)) : h \in Headers, b \in Bodies}

\* What lint_yaml_style may report on a file that parses.
LintOutputs == Lists(LintWarnings, 0, 1)

InitValidate ==
    /\ pc = "file"
    /\ file \in PolicyFiles
    /\ reported = NotRun
    /\ tools = NotRun
    /\ extracted = NotRun
    /\ results = NotRun
    /\ validation = NotRun
    /\ IdleSim
    /\ IdleConv
    /\ IdleResult
    /\ IdleApp

\* One call validate_policy(file_path).
ValidatePolicy ==
    /\ pc = "file"
    /\ \E lint \in LintOutputs :
        LET result == validate_policy(file, lint)
        IN  /\ is_valid' = result.is_valid
            /\ yaml_syntax_errors' = result.yaml_syntax_errors
            /\ yaml_lint_warnings' = result.yaml_lint_warnings
            /\ schema_errors' = result.schema_errors
            /\ suggestions' = result.suggestions
    /\ pc' = "validated"
    /\ UNCHANGED <<simVars, appVars, convVars, fileVars>>

\* One call validate_cilium_schema(data) on what the file parsed to.
ValidateCiliumSchema ==
    /\ pc = "file"
    /\ DidParse(file)
    /\ reported' = validate_cilium_schema(file.parsed)
    /\ pc' = "checked"
    /\ UNCHANGED <<file, tools, extracted, results, validation, simVars, appVars, convVars, resultVars>>

NextValidate == ValidatePolicy \/ ValidateCiliumSchema

SpecValidate == InitValidate /\ [][NextValidate]_vars

----------------------------------------------------------------------------
(* What the validator's contract speaks of, stated without the validator *)

Validated == pc = "validated"
Checked == pc = "checked"

HoldsDocument == DidParse(file) /\ IsMapping(file.parsed)
Document == file.parsed.mapping

ListedSpecs(d) == IF Has(d, "specs") THEN {d.specs[i] : i \in 1..Len(d.specs)} ELSE {}

\* The top-level keys are all present and hold what the data model asks for.
WellFormedHeader(d) ==
    /\ {"apiVersion", "kind", "metadata"} \subseteq DOMAIN d
    /\ d.apiVersion = "cilium.io/v2"
    /\ d.kind = "CiliumNetworkPolicy"
    /\ d.metadata = [name |-> "generated-policy"]

\* C11: a document with both `spec` and `specs`, each well-formed, is reported
\* valid (is_valid true, no schema errors) with a suggestion naming both keys.
BothKeysReportedValid ==
    (/\ Validated
     /\ HoldsDocument
     /\ WellFormedHeader(Document)
     /\ Has(Document, "spec") /\ Document.spec \in AcceptedSpecs
     /\ Has(Document, "specs") /\ ListedSpecs(Document) \subseteq AcceptedSpecs)
        => /\ is_valid
           /\ schema_errors = <<>>
           /\ \E i \in 1..Len(suggestions) : suggestions[i] = BothKeysSuggestion

\* What does hold of a well-formed document with both keys: the suggestion
\* naming both keys is made, and with one of the keys alone it is reported valid.
BothKeysSuggested ==
    (Validated /\ HoldsDocument /\ WellFormedHeader(Document)
        /\ Has(Document, "spec") /\ Has(Document, "specs"))
        => \E i \in 1..Len(suggestions) : suggestions[i] = BothKeysSuggestion

OneKeyReportedValid ==
    (/\ Validated
     /\ HoldsDocument
     /\ WellFormedHeader(Document)
     /\ Has(Document, "spec") # Has(Document, "specs")
     /\ Has(Document, "spec") => Document.spec \in AcceptedSpecs
     /\ ListedSpecs(Document) \subseteq AcceptedSpecs)
        => is_valid /\ schema_errors = <<>>

\* The parsed file is empty, or a mapping that lacks a required top-level key
\* or has neither `spec` nor `specs`.
LacksRequiredKey(content) ==
    \/ IsNone(content)
    \/ /\ IsMapping(content)
       /\ \/ ~({"apiVersion", "kind", "metadata"} \subseteq DOMAIN content.mapping)
          \/ ~Has(content.mapping, "spec") /\ ~Has(content.mapping, "specs")

\* C12: a parseable document lacking a required top-level key, or having neither
\* `spec` nor `specs`, is reported invalid with at least one schema error; the
\* empty document included.
LackingKeysReportedInvalid ==
    (Validated /\ DidParse(file) /\ LacksRequiredKey(file.parsed))
        => ~is_valid /\ schema_errors # <<>>

\* The same for documents with at least one key.
NonEmptyLackingKeysReportedInvalid ==
    (Validated /\ HoldsDocument /\ Document # EmptyDict /\ LacksRequiredKey(file.parsed))
        => ~is_valid /\ schema_errors # <<>>

\* The labels and annotations of the metadata that are not strings: <<"labels"
\* or "annotations", key>>.
NumberLabels(d) ==
    IF ~Has(d, "metadata") THEN {}
    ELSE UNION {{<<m, k>> : k \in {k \in DOMAIN d.metadata[m] : ~IsStr(d.metadata[m][k])}} :
                    m \in {"labels", "annotations"} \cap DOMAIN d.metadata}

\* The violations at the top level of a document, one per violated constraint.
TopViolations(d) ==
    {SchemaError(<<>>, "required", {k}) : k \in {"apiVersion", "kind", "metadata"} \ DOMAIN d}
        \cup (IF Has(d, "apiVersion") /\ d.apiVersion # "cilium.io/v2"
              THEN {SchemaError(<<"apiVersion">>, "enum", {d.apiVersion})} ELSE {})
        \cup (IF Has(d, "kind") /\ d.kind # "CiliumNetworkPolicy"
              THEN {SchemaError(<<"kind">>, "enum", {d.kind})} ELSE {})
        \cup (IF Has(d, "metadata") /\ ~Has(d.metadata, "name")
              THEN {SchemaError(<<"metadata">>, "required", {"name"})} ELSE {})
        \cup (IF Has(d, "metadata") /\ Has(d.metadata, "name") /\ d.metadata.name = "Bad_Name"
              THEN {SchemaError(<<"metadata", "name">>, "pattern", {"Bad_Name"})} ELSE {})
        \cup (IF Has(d, "spec") = Has(d, "specs")
              THEN {SchemaError(<<>>, "oneOf", {"spec", "specs"} \cap DOMAIN d)} ELSE {})
        \cup {SchemaError(<<"metadata", l[1], l[2]>>, "type", {"string"}) : l \in NumberLabels(d)}

\* Every port entry of a document with its place: the key and index of its
\* spec, and its indices in egress, toPorts and ports.
SpecsAt(d) ==
    (IF Has(d, "spec") THEN {<<"spec", 1, d.spec>>} ELSE {})
        \cup (IF Has(d, "specs") THEN {<<"specs", i, d.specs[i]>> : i \in 1..Len(d.specs)} ELSE {})

PortEntriesAt(d) ==
    UNION {UNION {UNION {
        {<<s[1], s[2], j, k, m, Get(Get(s[3], "egress", <<>>)[j], "toPorts", <<>>)[k].ports[m]>> :
            m \in 1..Len(Get(Get(Get(s[3], "egress", <<>>)[j], "toPorts", <<>>)[k], "ports", <<>>))} :
        k \in 1..Len(Get(Get(s[3], "egress", <<>>)[j], "toPorts", <<>>))} :
        j \in 1..Len(Get(s[3], "egress", <<>>))} :
        s \in SpecsAt(d)}

\* The constraints a port entry violates.
EntryViolations(p) ==
    {k \in {"port", "protocol"} : ~Has(p, k)}
        \cup (IF Has(p, "port") /\ ~IsStr(p.port) /\ ~(IsInt(p.port) /\ p.port.int \in 1..65535)
              THEN {"port value"} ELSE {})
        \cup (IF Has(p, "protocol") /\ p.protocol \notin {"TCP", "UDP", "SCTP", "ICMP", "ICMPv6", "ANY"}
              THEN {"protocol value"} ELSE {})

\* The closed objects of a document, each with its path: the policy specs, their
\* selectors, their rules of the four kinds, the selectors and the port rules of
\* the rules.
SpecSites(d) ==
    {[path |-> IF s[1] = "spec" THEN <<"spec">> ELSE <<"specs", Decimal(s[2] - 1)>>,
      object |-> s[3]] : s \in SpecsAt(d)}

Under(sites, keys) ==
    UNION {{[path |-> st.path \o <<k>>, object |-> st.object[k]] :
                k \in keys \cap DOMAIN st.object} : st \in sites}

ItemsOf(sites) ==
    UNION {{[path |-> st.path \o <<Decimal(i - 1)>>, object |-> st.object[i]] :
                i \in 1..Len(st.object)} : st \in sites}

RuleSites(d) == ItemsOf(Under(SpecSites(d), {"ingress", "egress", "ingressDeny", "egressDeny"}))

\* The key of the selectors the schema reads in a rule at this path.
ReadAsSelectors(st) ==
    IF st.path[Len(st.path) - 1] \in {"egress", "egressDeny"}
    THEN {"toEndpoints"} ELSE {"fromEndpoints"}

ClosedSites(d) ==
    SpecSites(d)
        \cup Under(SpecSites(d), {"endpointSelector", "nodeSelector"})
        \cup RuleSites(d)
        \cup UNION {ItemsOf(Under({st}, ReadAsSelectors(st))) : st \in RuleSites(d)}
        \cup ItemsOf(Under(RuleSites(d), {"toPorts"}))

HasUnknownKey(st) == Has(st.object, "extra")

BodyViolations(d) ==
    UNION {{<<e, v>> : v \in EntryViolations(e[6])} : e \in PortEntriesAt(d)}
        \cup {<<st, "unknown key">> : st \in {st \in ClosedSites(d) : HasUnknownKey(st)}}

AtTopLevel(e) == e.path = <<>> \/ e.path[1] \in {"apiVersion", "kind", "metadata"}

Entries(l) == {l[i] : i \in 1..Len(l)}

\* C13: schema validation accumulates. A document whose only violations are a
\* wrong apiVersion and a wrong kind gets exactly two schema errors, one per
\* field; and every violation of a document has its own entry: the entries at
\* the top level are its top-level violations, one each, and the others are as
\* many as the violations inside its specs.
SchemaErrorsAccumulate ==
    (Checked /\ HoldsDocument) =>
        LET top == SelectSeq(reported, AtTopLevel)
        IN  /\ Entries(top) = TopViolations(Document)
            /\ Len(top) = Cardinality(TopViolations(Document))
            /\ Len(reported) - Len(top) = Cardinality(BodyViolations(Document))
            /\ (/\ TopViolations(Document) =
                        {SchemaError(<<"apiVersion">>, "enum", {"wrong"}),
                         SchemaError(<<"kind">>, "enum", {"wrong"})}
                /\ BodyViolations(Document) = {})
                 => /\ Len(reported) = 2
                    /\ reported[1].path = <<"apiVersion">>
                    /\ reported[2].path = <<"kind">>

\* C13 witness: a document whose only violations are a wrong apiVersion and a
\* wrong kind went through schema validation.
WrongApiVersionAndKindChecked ==
    /\ Checked
    /\ HoldsDocument
    /\ Document = [apiVersion |-> "wrong", kind |-> "wrong",
                   metadata |-> [name |-> "generated-policy"],
                   spec |-> [endpointSelector |-> EmptyDict, egress |-> <<>>]]
    /\ Len(reported) = 2

\* C14: a syntax error short-circuits. A result with a syntax error has no schema
\* error, no lint warning and no suggestion, and is invalid.
SyntaxErrorShortCircuits ==
    (Validated /\ yaml_syntax_errors # <<>>) =>
        /\ ~is_valid
        /\ schema_errors = <<>>
        /\ yaml_lint_warnings = <<>>
        /\ suggestions = <<>>

\* C14 witness: a file that exists and does not parse was validated.
UnparseableFileValidated ==
    /\ Validated
    /\ file = Unreadable("YAMLError")
    /\ yaml_syntax_errors = <<"YAML syntax error">>

----------------------------------------------------------------------------
(* tester._extract_rules *)

ExtractedRule(src, dest, port) == [src |-> src, dest |-> dest, port |-> port]

\* `for tp in e.get("toPorts", []): for p in tp.get("ports", []): ports.append(p.get("port"))`
ListedPorts(e) ==
    LET to_ports == Get(e, "toPorts", <<>>)
    IN  Concat([k \in 1..Len(to_ports) |->
            LET ports == Get(to_ports[k], "ports", <<>>)
            IN  [m \in 1..Len(ports) |-> Get(ports[m], "port", None)]])

\* The rules one egress rule yields: for each destination, one rule per listed
\* port, or one rule with port "any" when no port is listed.
EgressRules(src, e) ==
    LET dests == Get(e, "toEndpoints", <<>>)
        ports == ListedPorts(e)
    IN  Concat([i \in 1..Len(dests) |->
            LET dest == AppOr(dests[i], "unknown")
            IN  IF ports = <<>>
                THEN <<ExtractedRule(src, dest, PyStr("any"))>>
                ELSE [m \in 1..Len(ports) |-> ExtractedRule(src, dest, ports[m])]])

SpecRules(s) ==
    LET src == AppOr(Get(s, "endpointSelector", EmptyDict), "unknown")
        egress == Get(s, "egress", <<>>)
    IN  Concat([j \in 1..Len(egress) |-> EgressRules(src, egress[j])])

\* The list returned, or the AttributeError of `s.get` on a key of the `spec` mapping.
extract_rules(doc) ==
    LET specs == SelectedSpecs(doc)
    IN  IF specs.kind = "dict"
        THEN Raised("AttributeError")
        ELSE [rules |-> Concat([i \in 1..Len(specs.items) |-> SpecRules(specs.items[i])])]

----------------------------------------------------------------------------
(* tester._validate_policy_syntax *)

RECURSIVE Join(_)
Join(l) == IF Len(l) = 1 THEN l[1] ELSE l[1] \o ", " \o Join(Tail(l))

Invalid(error) == [valid |-> FALSE, error |-> PyStr(error), warnings |-> <<>>]

\* Every exception of _read_policy and of the checks is caught and reported as
\* the error of an invalid policy.
validate_policy_syntax(f) ==
    IF ~f.exists THEN Invalid("Policy file not found")
    ELSE IF ~DidParse(f) THEN Invalid(f.error)
    ELSE IF IsNone(f.parsed) THEN Invalid("argument of type 'NoneType' is not iterable")
    ELSE LET keys == IF IsMapping(f.parsed) THEN DOMAIN f.parsed.mapping
                     ELSE {f.parsed.sequence[i] : i \in 1..Len(f.parsed.sequence)}
             missing_fields == SelectSeq(<<"apiVersion", "kind", "metadata">>, LAMBDA k : k \notin keys)
         IN  IF missing_fields # <<>>
             THEN Invalid("Missing required fields: " \o Join(missing_fields))
             ELSE IF IsSequence(f.parsed) THEN Invalid("'list' object has no attribute 'get'")
             ELSE LET d == f.parsed.mapping
                  IN  IF d.apiVersion # "cilium.io/v2"
                      THEN Invalid("Invalid apiVersion: " \o d.apiVersion \o ". Expected 'cilium.io/v2'")
                      ELSE IF d.kind # "CiliumNetworkPolicy"
                      THEN Invalid("Invalid kind: " \o d.kind \o ". Expected 'CiliumNetworkPolicy'")
                      ELSE IF ~(Has(d, "specs") /\ Truthy(d.specs)) /\ ~(Has(d, "spec") /\ Truthy(d.spec))
                      THEN Invalid("No policy specifications found. Expected 'specs' or 'spec' field")
                      ELSE [valid |-> TRUE, error |-> None,
                            warnings |-> IF Has(d, "specs") /\ Has(d, "spec")
                                         THEN <<"Both 'specs' and 'spec' found. 'spec' will be ignored.">>
                                         ELSE <<>>]

----------------------------------------------------------------------------
(* tester._test_connectivity_with_cilium and tester.run_real_validation *)

\* How one subprocess.run ends: with exit status 0 or another one, or by raising
\* because the program is not found or cannot be executed; with timeout=30, also
\* by raising TimeoutExpired.
RunOutcomes == {"exit 0", "exit 1", "FileNotFoundError", "PermissionError"}
ConnectivityOutcomes == RunOutcomes \cup {"TimeoutExpired"}

\* _read_policy then _extract_rules: the rules, or the exception raised.
RulesOfFile(f) ==
    IF ~f.exists THEN Raised("FileNotFoundError")
    ELSE IF ~DidParse(f) THEN Raised(f.error)
    ELSE IF ~IsMapping(f.parsed) THEN Raised("AttributeError")
    ELSE extract_rules(f.parsed.mapping)

\* The body of `for rule in rules`, its subprocess.run ending as `run` says: the
\* entry appended to results, or the exception that leaves the loop.
RuleResult(rule, run, doc) ==
    LET entry(status, details) ==
            [src |-> rule.src, dest |-> rule.dest, port |-> rule.port,
             status |-> status, details |-> details, test_type |-> "real"]
    IN  CASE run = "exit 0" -> entry("allowed", [msg |-> "Connectivity test passed"])
          [] run = "exit 1" -> entry("blocked", [msg |-> "Connectivity test failed"])
          [] run \in {"FileNotFoundError", "TimeoutExpired"} ->
                LET fallback(simulated) ==
                        IF DidRaise(simulated) THEN simulated
                        ELSE entry(simulated.status, simulated.details)
                IN  fallback(simulate_policy_enforcement(rule.src, rule.dest, rule.port, doc))
          [] OTHER -> Raised(run)

\* _test_connectivity_with_cilium on file f, runs[i] being how the i-th call of
\* the cilium CLI ends (one call per rule, up to a call that raises): the
\* results, or the first exception raised.
test_connectivity_with_cilium(f, runs) ==
    LET returned(each) ==
            LET raising == {i \in 1..Len(each) : DidRaise(each[i])}
            IN  IF raising # {}
                THEN each[CHOOSE i \in raising : \A j \in raising : i <= j]
                ELSE [results |-> each]
        loop(extraction) ==
            IF DidRaise(extraction) THEN extraction
            ELSE returned([i \in 1..Len(runs) |->
                            RuleResult(extraction.rules[i], runs[i], f.parsed.mapping)])
    IN  loop(RulesOfFile(f))

\* _kubectl_dry_run_validation and _cilium_policy_validation: only
\* FileNotFoundError is caught.
ToolValidation(tool, run) ==
    CASE run = "exit 0" -> [tool |-> tool, success |-> TRUE]
      [] run = "exit 1" -> [tool |-> tool, success |-> FALSE]
      [] run = "FileNotFoundError" -> [tool |-> tool, success |-> FALSE, stderr |-> "not found in PATH"]
      [] OTHER -> Raised(run)

\* run_real_validation on file f, `calls` saying how each call of an external
\* tool ends.
run_real_validation(f, calls) ==
    LET report(syntax_result, kubectl_result, cilium_result, connectivity) ==
            IF DidRaise(connectivity) THEN connectivity
            ELSE [success |-> syntax_result.valid,
                  syntax_validation |-> syntax_result,
                  kubectl_validation |-> kubectl_result,
                  cilium_validation |-> cilium_result,
                  connectivity_results |-> connectivity.results,
                  warnings |-> syntax_result.warnings]
        validation_of(syntax_result) ==
            IF ~syntax_result.valid
            THEN [success |-> FALSE, error |-> syntax_result.error,
                  step |-> "syntax_validation", details |-> syntax_result]
            ELSE LET kubectl_result == ToolValidation("kubectl", calls.kubectl)
                 IN  IF DidRaise(kubectl_result) THEN kubectl_result
                     ELSE LET cilium_result == ToolValidation("cilium", calls.cilium)
                          IN  IF DidRaise(cilium_result) THEN cilium_result
                              ELSE report(syntax_result, kubectl_result, cilium_result,
                                          test_connectivity_with_cilium(f, calls.connectivity))
    IN  validation_of(validate_policy_syntax(f))

----------------------------------------------------------------------------
(* The tester and the visualizer's extractor on one policy file *)

\* Documents with other top-level keys than the tester asks for.
OddDocuments ==
    {h @@ b : h \in Headers \ {GoodHeader},
              b \in {EmptyDict} \cup {[specs |-> <<s>>] : s \in AcceptedSpecs}}

TesterFiles ==
    {NoFile, Unreadable("YAMLError"), Parsed(None), Parsed(Sequence(<<"policy">>))}
        \cup {Parsed(Mapping(GoodHeader @@ b)) : b \in Documents}
        \cup {Parsed(Mapping(d)) : d \in OddDocuments}

\* How many times the cilium CLI is asked about a connection: once per extracted rule.
CallsFor(f) ==
    LET calls(extraction) == IF DidRaise(extraction) THEN 0 ELSE Len(extraction.rules)
    IN  calls(RulesOfFile(f))

Raises(run) == run = "PermissionError"

\* The ways n calls in a row can end: no call follows one that raises.
ConnectivityRuns(n, outcomes) ==
    {runs \in Lists(outcomes, 0, n) :
        /\ \A i \in 1..(Len(runs) - 1) : ~Raises(runs[i])
        /\ Len(runs) = n \/ (runs # <<>> /\ Raises(runs[Len(runs)]))}

\* The calls of one run_real_validation on a policy that passes the syntax
\* check: kubectl, then cilium, then the connectivity tests (passing, finding no
\* tool or raising), up to the first call that raises.
ValidationCalls(n) ==
    {[kubectl |-> k] : k \in {r \in RunOutcomes : Raises(r)}}
        \cup {[kubectl |-> k, cilium |-> c] :
                k \in {r \in RunOutcomes : ~Raises(r)}, c \in {r \in RunOutcomes : Raises(r)}}
        \cup {[kubectl |-> k, cilium |-> c, connectivity |-> runs] :
                k \in {r \in RunOutcomes : ~Raises(r)}, c \in {r \in RunOutcomes : ~Raises(r)},
                runs \in ConnectivityRuns(n, RunOutcomes \ {"exit 1"})}

InitTester ==
    /\ pc = "file"
    /\ file \in TesterFiles
    /\ reported = NotRun
    /\ tools = NotRun
    /\ extracted = NotRun
    /\ results = NotRun
    /\ validation = NotRun
    /\ IdleSim
    /\ IdleConv
    /\ IdleResult
    /\ IdleApp

\* _extract_rules(cnp) on the parsed document.
ExtractRules ==
    /\ pc = "file"
    /\ DidParse(file) /\ IsMapping(file.parsed)
    /\ extracted' = extract_rules(file.parsed.mapping)
    /\ pc' = "rules"
    /\ UNCHANGED <<file, reported, tools, results, validation, simVars, appVars, convVars, resultVars>>

\* visualizer._extract_connections(cnp) on the parsed document.
ExtractConnections ==
    /\ pc = "file"
    /\ DidParse(file) /\ IsMapping(file.parsed)
    /\ connections' = extract_connections(file.parsed.mapping)
    /\ pc' = "connections"
    /\ UNCHANGED <<rules, converted, fileVars, simVars, appVars, resultVars>>

\* One call _test_connectivity_with_cilium(yaml_path).
TestConnectivity ==
    /\ pc = "file"
    /\ \E runs \in ConnectivityRuns(CallsFor(file), ConnectivityOutcomes) :
        /\ tools' = [connectivity |-> runs]
        /\ results' = test_connectivity_with_cilium(file, runs)
    /\ pc' = "tested"
    /\ UNCHANGED <<file, reported, extracted, validation, simVars, appVars, convVars, resultVars>>

\* One call run_real_validation(yaml_path).
RunRealValidation ==
    /\ pc = "file"
    /\ \E calls \in (IF validate_policy_syntax(file).valid
                      THEN ValidationCalls(CallsFor(file)) ELSE {NotRun}) :
        /\ tools' = calls
        /\ validation' = run_real_validation(file, calls)
    /\ pc' = "real"
    /\ UNCHANGED <<file, reported, extracted, results, simVars, appVars, convVars, resultVars>>

NextTester == ExtractRules \/ ExtractConnections \/ TestConnectivity \/ RunRealValidation

SpecTester == InitTester /\ [][NextTester]_vars

----------------------------------------------------------------------------
(* What the extractors' and the tester's contracts speak of *)

DidExtractRules == pc = "rules"
DidExtractConnections == pc = "connections"
Tested == pc = "tested"
RanRealValidation == pc = "real"

\* The document has its policy specs in a `specs` list and no `spec`.
InListForm(d) == Has(d, "specs") /\ ~Has(d, "spec")

\* Every src is a source label or "unknown", every dest a destination label or
\* "unknown"; and when no policy spec of the document has an app label, every
\* src is "unknown".
UsesUnknown(d, l) ==
    /\ \A i \in 1..Len(l) :
        /\ l[i].src \in SrcLabels \cup {"unknown"}
        /\ l[i].dest \in DestLabels \cup {"unknown"}
    /\ (\A s \in PolicySpecsOf(d) : ~\E a \in SrcLabels :
            Has(s, "endpointSelector") /\ SelectsApp(s.endpointSelector, a))
        => \A i \in 1..Len(l) : l[i].src = "unknown"

\* C15: extraction never fails on a partial document, in single `spec` form or
\* `specs` list form: each extractor returns a list, with "unknown" as the src or
\* dest of a connection whose app label is absent.
ExtractionNeverFails ==
    /\ DidExtractRules => (Has(extracted, "rules") /\ UsesUnknown(Document, extracted.rules))
    /\ DidExtractConnections => UsesUnknown(Document, connections)

\* What does hold: the tester's extractor returns on every document in list
\* form and uses "unknown"; the visualizer's extractor returns on every document.
RulesExtractedFromLists ==
    (DidExtractRules /\ ~Has(Document, "spec"))
        => (Has(extracted, "rules") /\ UsesUnknown(Document, extracted.rules))

\* What the contract asks of one endpoint of an egress rule: one connection per
\* port entry of its toPorts, in order, or a single one with port "any" when the
\* rule has no toPorts.
AnyPort == [any |-> TRUE]

ExpectedOfRule(r) ==
    LET to_ports == Get(r, "toPorts", <<>>)
        entries == Concat([k \in 1..Len(to_ports) |->
                        LET ports == Get(to_ports[k], "ports", <<>>)
                        IN  [m \in 1..Len(ports) |-> [entry |-> ports[m]]]])
        endpoints == Get(r, "toEndpoints", <<>>)
    IN  Concat([i \in 1..Len(endpoints) |-> IF NoToPorts(r) THEN <<AnyPort>> ELSE entries])

ExpectedOfSpec(s) ==
    LET egress == Get(s, "egress", <<>>)
    IN  Concat([j \in 1..Len(egress) |-> ExpectedOfRule(egress[j])])

ExpectedOfList(specs) == Concat([i \in 1..Len(specs) |-> ExpectedOfSpec(specs[i])])

\* The list l has one connection per expected one, in the same order, with
\* port "any" exactly where the rule has no toPorts and the port of the entry
\* where the entry names one.
OnePerPortEntry(l, expected) ==
    /\ Len(l) = Len(expected)
    /\ \A i \in 1..Len(expected) :
        /\ (l[i].port = PyStr("any")) <=> (expected[i] = AnyPort)
        /\ (Has(expected[i], "entry") /\ Has(expected[i].entry, "port"))
                => l[i].port = expected[i].entry.port

\* C16: for every egress rule and each of its toEndpoints, the extractors emit
\* one connection per toPorts[*].ports[*] entry, in document order, and one
\* connection with port "any" exactly when the rule has no toPorts; nothing is
\* deduplicated.
OneConnectionPerPortEntry ==
    /\ (DidExtractRules /\ InListForm(Document))
        => /\ Has(extracted, "rules")
           /\ OnePerPortEntry(extracted.rules, ExpectedOfList(Document.specs))
    /\ (DidExtractConnections /\ InListForm(Document))
        => OnePerPortEntry(connections, ExpectedOfList(Document.specs))

\* What does hold: the visualizer's extractor does so.
VisualizerOnePerPortEntry ==
    (DidExtractConnections /\ InListForm(Document))
        => OnePerPortEntry(connections, ExpectedOfList(Document.specs))

\* The document without its `spec` key, and the file holding it.
WithoutSpec(d) == [k \in DOMAIN d \ {"spec"} |-> d[k]]
FileWithoutSpec == Parsed(Mapping(WithoutSpec(Document)))

HasBothKeys == HoldsDocument /\ Has(Document, "spec") /\ Has(Document, "specs")

\* C17: `specs` wins. With both keys in the document, the extractors and the
\* simulator give what they give on the document without `spec`, also when
\* `specs` is empty.
SpecsWins ==
    /\ (DidExtractRules /\ HasBothKeys) => extracted = extract_rules(WithoutSpec(Document))
    /\ (DidExtractConnections /\ HasBothKeys)
        => connections = extract_connections(WithoutSpec(Document))
    /\ (Tested /\ HasBothKeys)
        => results = test_connectivity_with_cilium(FileWithoutSpec, tools.connectivity)

\* The same when `specs` has an entry.
NonEmptySpecsWins ==
    /\ (DidExtractRules /\ HasBothKeys /\ Document.specs # <<>>)
        => extracted = extract_rules(WithoutSpec(Document))
    /\ (DidExtractConnections /\ HasBothKeys /\ Document.specs # <<>>)
        => connections = extract_connections(WithoutSpec(Document))
    /\ (Tested /\ HasBothKeys /\ Document.specs # <<>>)
        => results = test_connectivity_with_cilium(FileWithoutSpec, tools.connectivity)

\* The entry is what the local simulation says of the rule.
IsSimulationOf(entry, rule, d) ==
    LET simulated == simulate_policy_enforcement(rule.src, rule.dest, rule.port, d)
    IN  /\ DidReturn(simulated)
        /\ entry.status = simulated.status
        /\ entry.details = simulated.details

\* C18: oracle fallback. For every extracted connection whose call of the
\* connectivity tool found no tool, timed out or ended in an error, the entry
\* recorded is the local simulation's, and the operation returns an entry for
\* every connection.
FallbackIsSimulation ==
    (Tested /\ HoldsDocument /\ Has(extract_rules(Document), "rules")) =>
        LET extraction == extract_rules(Document).rules
        IN  /\ Has(results, "results")
            /\ Len(results.results) = Len(extraction)
            /\ \A i \in 1..Len(extraction) :
                tools.connectivity[i] # "exit 0"
                    => IsSimulationOf(results.results[i], extraction[i], Document)

\* What does hold: a call that finds no tool or times out is answered by the
\* local simulation, and the operation returns unless a call raises another
\* exception.
FallbackWhenNotFoundOrTimedOut ==
    (/\ Tested
     /\ HoldsDocument
     /\ Has(extract_rules(Document), "rules")
     /\ \A i \in 1..Len(tools.connectivity) : ~Raises(tools.connectivity[i])) =>
        LET extraction == extract_rules(Document).rules
        IN  /\ Has(results, "results")
            /\ Len(results.results) = Len(extraction)
            /\ \A i \in 1..Len(extraction) :
                tools.connectivity[i] \in {"FileNotFoundError", "TimeoutExpired"}
                    => IsSimulationOf(results.results[i], extraction[i], Document)

\* kubectl and the cilium CLI were both called and ended by being missing or
\* with an exit status, one of them at least failing; no connectivity call raised
\* an exception the tester does not catch.
ValidationToolFailed ==
    /\ Has(tools, "connectivity")
    /\ {tools.kubectl, tools.cilium} \cap {"FileNotFoundError", "exit 1"} # {}
    /\ \A i \in 1..Len(tools.connectivity) : ~Raises(tools.connectivity[i])

\* C19: a failing external validation tool (missing, or exiting non-zero) neither
\* blocks nor alters the local results: run_real_validation returns connectivity
\* results for every extracted connection, and success is the outcome of the
\* local syntax check.
ToolFailureKeepsLocalResults ==
    (RanRealValidation /\ ValidationToolFailed) =>
        /\ Has(validation, "success")
        /\ validation.success = validate_policy_syntax(file).valid
        /\ Has(validation, "connectivity_results")
        /\ [results |-> validation.connectivity_results]
                = test_connectivity_with_cilium(file, tools.connectivity)

\* The same on documents without a `spec` key.
ToolFailureKeepsLocalResultsOfLists ==
    (RanRealValidation /\ ValidationToolFailed /\ ~Has(Document, "spec")) =>
        /\ Has(validation, "success")
        /\ validation.success = validate_policy_syntax(file).valid
        /\ Has(validation, "connectivity_results")
        /\ [results |-> validation.connectivity_results]
                = test_connectivity_with_cilium(file, tools.connectivity)

\* The simulator was the oracle of every connection: every call of the
\* connectivity tool found no tool or timed out.
SimulatedEveryConnection ==
    /\ Tested
    /\ HoldsDocument
    /\ \A i \in 1..Len(tools.connectivity) :
            tools.connectivity[i] \in {"FileNotFoundError", "TimeoutExpired"}

Count(l, status) == Cardinality({i \in 1..Len(l) : l[i].status = status})

\* One result per connection, in the same order, with the connection's src,
\* dest and port and a status that is "allowed" or "blocked", so that
\* total = allowed + blocked.
Parallel(l, extraction) ==
    /\ Len(l) = Len(extraction)
    /\ \A i \in 1..Len(extraction) :
        /\ l[i].src = extraction[i].src
        /\ l[i].dest = extraction[i].dest
        /\ l[i].port = extraction[i].port
        /\ l[i].status \in {"allowed", "blocked"}
    /\ Len(l) = Count(l, "allowed") + Count(l, "blocked")

\* C20: the simulator run over every connection of a document gives a results
\* list parallel to the extractor's connections: one result per connection, in
\* the same order, each allowed or blocked, so that total = allowed + blocked.
ResultsParallelToConnections ==
    SimulatedEveryConnection =>
        /\ Has(results, "results")
        /\ Has(extract_rules(Document), "rules")
        /\ Parallel(results.results, extract_rules(Document).rules)

\* What does hold: the results are parallel to the connections whenever the
\* extractor returns them.
ResultsParallelWhenExtracted ==
    (SimulatedEveryConnection /\ Has(extract_rules(Document), "rules")) =>
        /\ Has(results, "results")
        /\ Parallel(results.results, extract_rules(Document).rules)

----------------------------------------------------------------------------
(* What the advisor's contract speaks of *)

\* The PolicySpecs of a document, `specs` taking precedence, each with the name
\* the advisor gives it.
NamedSpecs(d) ==
    IF Has(d, "specs")
    THEN {[name |-> "spec[" \o Decimal(i - 1) \o "]", spec |-> d.specs[i]] : i \in 1..Len(d.specs)}
    ELSE IF Has(d, "spec") THEN {[name |-> "spec", spec |-> d.spec]}
    ELSE {}

\* The spec has an endpointSelector with neither matchLabels nor matchExpressions.
BroadSelector(spec) ==
    /\ Has(spec, "endpointSelector")
    /\ ~Has(spec.endpointSelector, "matchLabels") \/ spec.endpointSelector.matchLabels = EmptyDict
    /\ ~Has(spec.endpointSelector, "matchExpressions")

TargetsAllPods(name) ==
    name \o ": Empty endpointSelector targets all pods - consider being more specific"

OfRightKind(d) == Has(d, "kind") /\ d.kind = "CiliumNetworkPolicy"

\* C21: every PolicySpec with an empty endpointSelector, in a document of the
\* right kind, gets the suggestion that it targets all endpoints, and the
\* suggestion leaves is_valid as the syntax and schema errors set it.
BroadSelectorSuggested ==
    (Validated /\ HoldsDocument /\ OfRightKind(Document)) =>
        /\ \A n \in NamedSpecs(Document) :
            BroadSelector(n.spec)
                => \E i \in 1..Len(suggestions) : suggestions[i] = TargetsAllPods(n.name)
        /\ is_valid <=> (yaml_syntax_errors = <<>> /\ schema_errors = <<>>)

\* C21 witness: a valid document whose single spec has endpointSelector {} was
\* validated and got the suggestion.
BroadSelectorValidated ==
    /\ Validated
    /\ HoldsDocument
    /\ WellFormedHeader(Document)
    /\ Has(Document, "spec") /\ ~Has(Document, "specs")
    /\ Has(Document.spec, "endpointSelector") /\ Document.spec.endpointSelector = EmptyDict
    /\ is_valid
    /\ \E i \in 1..Len(suggestions) : suggestions[i] = TargetsAllPods("spec")

----------------------------------------------------------------------------
(* Closed objects *)

UnknownKeyError(st) == SchemaError(st.path, "additionalProperties", {"extra"})

UnderLabels(e) ==
    Len(e.path) >= 2 /\ e.path[1] = "metadata" /\ e.path[2] \in {"labels", "annotations"}

\* C22: closed objects. A key no schema names, directly inside a PolicySpec, a
\* rule (ingress, egress, ingressDeny, egressDeny), a LabelSelector or a PortRule,
\* gets a schema error at that object and makes the document invalid; labels
\* and annotations of the metadata, whatever their keys, get none when their
\* values are strings.
ClosedObjectsRejectUnknownKeys ==
    /\ (Checked /\ HoldsDocument) =>
        /\ \A st \in ClosedSites(Document) :
                HasUnknownKey(st) => UnknownKeyError(st) \in Entries(reported)
        /\ NumberLabels(Document) = {} => \A e \in Entries(reported) : ~UnderLabels(e)
    /\ (Validated /\ HoldsDocument) =>
        /\ \A st \in ClosedSites(Document) :
                HasUnknownKey(st) => (~is_valid /\ UnknownKeyError(st) \in Entries(schema_errors))
        /\ NumberLabels(Document) = {} => \A e \in Entries(schema_errors) : ~UnderLabels(e)

\* C22 witness: a document whose only defect is an unknown key in an ingressDeny
\* rule, with string-valued labels and annotations, was validated and is invalid.
UnknownKeyInDenyRuleValidated ==
    /\ Validated
    /\ HoldsDocument
    /\ Has(Document, "metadata") /\ Has(Document.metadata, "labels")
    /\ NumberLabels(Document) = {}
    /\ Has(Document, "spec")
    /\ Document.spec = [FullSpec EXCEPT !.ingressDeny[1] = WithExtra(@)]
    /\ ~is_valid
    /\ Entries(schema_errors) = {SchemaError(<<"spec", "ingressDeny", "0">>,
                                             "additionalProperties", {"extra"})}

----------------------------------------------------------------------------
(* Ports by value *)

\* The port of a port value, whichever way it is written.
PortValue(p) == IF IsInt(p) THEN Decimal(p.int) ELSE p.str

SamePort(p, q) == ~IsNone(p) /\ ~IsNone(q) /\ PortValue(p) = PortValue(q)

\* C23: ports match by value, not by representation. When a rule matching src
\* and dest lists the candidate's port, as an integer or as a string, the
\* simulator returns "allowed".
PortsMatchByValue ==
    (/\ Simulated
     /\ \E r \in MatchingRules(cnp, query.src, query.dest) :
            \E e \in PortEntriesOf(r) : Has(e, "port") /\ SamePort(e.port, query.port))
        => Allowed

\* What does hold: on a `specs` list, a listed port written as the candidate
\* is written is allowed.
PortsMatchInOneRepresentation ==
    (/\ Simulated
     /\ ~Has(cnp, "spec")
     /\ \E r \in MatchingRules(cnp, query.src, query.dest) :
            \E e \in PortEntriesOf(r) : Has(e, "port") /\ e.port = query.port)
        => Allowed

----------------------------------------------------------------------------
(* cli.workflow: convert, validate, test, visualize *)

\* converter.convert_rules on a JSON file: a file that cannot be read or parsed
\* is reported on the console and the function returns, nothing written.
NothingWritten == [unread |-> TRUE]
convert_rules_file(readable, rs) == IF readable THEN convert_rules(rs) ELSE NothingWritten

\* tester.run_mock_tests: one result per extracted rule, its status drawn at
\* random (draws[i] for the i-th rule), or the exception of _read_policy or
\* _extract_rules.
run_mock_tests(f, draws) ==
    LET each(extraction) ==
            IF DidRaise(extraction) THEN extraction
            ELSE [results |-> [i \in 1..Len(extraction.rules) |->
                        [src |-> extraction.rules[i].src, dest |-> extraction.rules[i].dest,
                         port |-> extraction.rules[i].port,
                         status |-> IF draws[i] THEN "allowed" ELSE "blocked"]]]
    IN  each(RulesOfFile(f))

\* tester.test_policy: the exception that leaves it, if any. A real validation
\* that fails is printed and test_policy returns.
test_policy(f, real, calls, draws) ==
    IF real THEN [validation |-> run_real_validation(f, calls), results |-> NotRun]
    ELSE [validation |-> NotRun, results |-> run_mock_tests(f, draws)]

\* visualizer.visualize_policy: what it returns. Every exception of reading,
\* extracting and drawing is caught inside and becomes the returned text.
visualize_policy(f, graph) ==
    IF ~f.exists \/ ~DidParse(f) \/ ~IsMapping(f.parsed)
    THEN [returned |-> "Error", connections |-> NotRun]
    ELSE LET drawn(found) ==
                IF found = <<>>
                THEN [returned |-> "No connections to visualize", connections |-> found]
                ELSE [returned |-> graph, connections |-> found]
         IN  drawn(extract_connections(f.parsed.mapping))

\* The rules of the JSON files handed to the workflow: complete ones, one with
\* a protocol the policy schema does not know, one without a port.
WorkflowRules ==
    {FlatRule("A", "B", <<PyInt(80), "tcp">>),
     FlatRule("A", "C", <<PyStr("443"), "Udp">>),
     FlatRule("B", "C", <<PyInt(8080), "http">>),
     [src |-> "A", dest |-> "B", proto |-> "tcp"]}

\* What the output path holds before the workflow runs: nothing, or the policy
\* of an earlier run.
EarlierOutputs ==
    {NoFile,
     Parsed(Mapping(GoodHeader @@ [specs |-> <<FullSpec>>])),
     Parsed(Mapping(GoodHeader @@ [spec |-> FullSpec])),
     Parsed(Mapping([kind |-> "wrong", specs |-> <<FullSpec>>]))}

\* How the external tools end during one real test: all present and passing,
\* all missing, or kubectl raising an exception nobody catches.
WorkflowCalls(n) ==
    {[kubectl |-> o, cilium |-> o, connectivity |-> [i \in 1..n |-> o]] :
        o \in {"exit 0", "FileNotFoundError"}} \cup {[kubectl |-> "PermissionError"]}

InitWorkflow ==
    /\ pc = "convert"
    /\ workflow \in {[skip_validation |-> s, real_test |-> r, readable |-> j, started |-> <<>>,
                      status |-> "running", summary |-> FALSE, graph_path |-> ""] :
                        s \in BOOLEAN, r \in BOOLEAN, j \in BOOLEAN}
    /\ rules \in (IF workflow.readable THEN Lists(WorkflowRules, 0, MaxRules) ELSE {<<>>})
    /\ converted = NotRun
    /\ connections = NotRun
    /\ file \in EarlierOutputs
    /\ reported = NotRun
    /\ tools = NotRun
    /\ extracted = NotRun
    /\ results = NotRun
    /\ validation = NotRun
    /\ IdleSim
    /\ IdleResult
    /\ IdleDashboard

Started(step) == [workflow EXCEPT !.started = Append(@, step)]

\* raise typer.Exit(1)
Exit1(step) == [Started(step) EXCEPT !.status = "exit 1"]

\* Step 1: convert_rules(json_file, output_yaml); yaml.dump writes the document
\* to the output path, where safe_load reads the same document back.
WorkflowConvert ==
    /\ pc = "convert"
    /\ LET step(outcome) ==
            /\ converted' = outcome
            /\ IF DidRaise(outcome)
               THEN /\ file' = file
                    /\ workflow' = Exit1("convert")
                    /\ pc' = "done"
               ELSE /\ file' = IF Has(outcome, "document")
                               THEN Parsed(Mapping(outcome.document)) ELSE file
                    /\ workflow' = Started("convert")
                    /\ pc' = IF workflow.skip_validation THEN "test" ELSE "validate"
       IN  step(convert_rules_file(workflow.readable, rules))
    /\ UNCHANGED <<rules, connections, simVars, resultVars, reported, tools, extracted, results,
                   validation, session, page, uploaded>>

\* Step 2: validate_policy(output_yaml); the workflow exits when the result is
\* invalid and counts an error.
WorkflowValidate ==
    /\ pc = "validate"
    /\ \E lint \in LintOutputs :
        LET step(result) ==
                /\ is_valid' = result.is_valid
                /\ yaml_syntax_errors' = result.yaml_syntax_errors
                /\ yaml_lint_warnings' = result.yaml_lint_warnings
                /\ schema_errors' = result.schema_errors
                /\ suggestions' = result.suggestions
                /\ IF /\ ~result.is_valid
                      /\ Len(result.yaml_syntax_errors) + Len(result.schema_errors) > 0
                   THEN workflow' = Exit1("validate") /\ pc' = "done"
                   ELSE workflow' = Started("validate") /\ pc' = "test"
        IN  step(validate_policy(file, lint))
    /\ UNCHANGED <<simVars, convVars, fileVars, session, page, uploaded>>

\* Step 3: tester.test_policy(output_yaml, real=real_test); only an exception
\* makes the workflow exit.
WorkflowTest ==
    /\ pc = "test"
    /\ \E draws \in (IF workflow.real_test THEN {<<>>} ELSE [1..MaxRules -> BOOLEAN]) :
        \E calls \in (IF workflow.real_test /\ validate_policy_syntax(file).valid
                      THEN WorkflowCalls(CallsFor(file)) ELSE {NotRun}) :
            LET step(outcome) ==
                    /\ tools' = calls
                    /\ validation' = outcome.validation
                    /\ results' = outcome.results
                    /\ IF DidRaise(outcome.validation) \/ DidRaise(outcome.results)
                       THEN workflow' = Exit1("test") /\ pc' = "done"
                       ELSE workflow' = Started("test") /\ pc' = "visualize"
            IN  step(test_policy(file, workflow.real_test, calls, draws))
    /\ UNCHANGED <<file, reported, extracted, simVars, convVars, resultVars, session, page,
                   uploaded>>

\* Step 4: visualize_policy(output_yaml, ...), which returns whatever happens;
\* then the final summary.
WorkflowVisualize ==
    /\ pc = "visualize"
    /\ \E graph \in {"policy_graph.png", "Error"} :
        LET step(shown) ==
                /\ connections' = shown.connections
                /\ workflow' = [Started("visualize") EXCEPT !.graph_path = shown.returned,
                                                            !.summary = TRUE,
                                                            !.status = "exit 0"]
        IN  step(visualize_policy(file, graph))
    /\ pc' = "done"
    /\ UNCHANGED <<rules, converted, simVars, resultVars, fileVars, session, page, uploaded>>

NextWorkflow == WorkflowConvert \/ WorkflowValidate \/ WorkflowTest \/ WorkflowVisualize

SpecWorkflow == InitWorkflow /\ [][NextWorkflow]_vars

----------------------------------------------------------------------------
(* What the workflow's contract speaks of *)

StepOrder == <<"convert", "validate", "test", "visualize">>

Ran(step) == \E i \in 1..Len(workflow.started) : workflow.started[i] = step

\* The step ran last and the workflow ended there with exit status 1, no
\* summary printed.
EndedAt(step) ==
    /\ workflow.started[Len(workflow.started)] = step
    /\ pc = "done"
    /\ workflow.status = "exit 1"
    /\ ~workflow.summary

ConversionFailed == Ran("convert") /\ (~workflow.readable \/ DidRaise(converted))
ValidationFailed == Ran("validate") /\ (yaml_syntax_errors # <<>> \/ schema_errors # <<>>)
TestFailed ==
    /\ Ran("test")
    /\ \/ DidRaise(results)
       \/ DidRaise(validation)
       \/ Has(validation, "success") /\ ~validation.success
VisualizationFailed == Ran("visualize") /\ workflow.graph_path = "Error"

\* The steps started so far are the first steps of the order, none skipped.
InOrder == workflow.started = SubSeq(StepOrder, 1, Len(workflow.started))

\* C24: the workflow runs convert, validate, test, visualize in this order, each
\* step starting only after the earlier ones succeeded; a failed step
\* (conversion that cannot read or convert its input, validation reporting an
\* error, failed test, failed visualization) ends the workflow with exit status
\* 1, no later step run and no success summary printed.
FailedStepEndsWorkflow ==
    /\ ~workflow.skip_validation => InOrder
    /\ ConversionFailed => EndedAt("convert")
    /\ ValidationFailed => EndedAt("validate")
    /\ TestFailed => EndedAt("test")
    /\ VisualizationFailed => EndedAt("visualize")

\* What does hold: the order of the steps, and the failures the workflow sees,
\* which are a conversion that raises, a validation that counts an error and a
\* test that raises.
SeenFailureEndsWorkflow ==
    /\ ~workflow.skip_validation => InOrder
    /\ (Ran("convert") /\ DidRaise(converted)) => EndedAt("convert")
    /\ ValidationFailed => EndedAt("validate")
    /\ (Ran("test") /\ (DidRaise(results) \/ DidRaise(validation))) => EndedAt("test")
    /\ workflow.summary => (pc = "done" /\ workflow.status = "exit 0" /\ Ran("visualize"))

----------------------------------------------------------------------------
(* Converted policies under validation *)

\* Every rule of the JSON file names its source, destination, port and protocol.
AllFieldsPresent ==
    \A i \in 1..Len(rules) : {"src", "dest", "port", "proto"} \subseteq DOMAIN rules[i]

\* The workflow converted a readable rule list and validated what it wrote.
ConvertedAndValidated == Ran("validate") /\ workflow.readable /\ Has(converted, "document")

\* C27: every document convert_rules produces from a rule list in which all four
\* fields are present is accepted by validate_policy, is_valid true and no
\* schema error, for any protocol string and any port value, the empty rule
\* list included.
ConvertedPolicyAccepted ==
    (ConvertedAndValidated /\ AllFieldsPresent) => (is_valid = TRUE /\ schema_errors = <<>>)

\* What does hold: the converted document is accepted when every protocol,
\* upper-cased, is one the PortRule schema lists.
KnownProtocols == {"TCP", "UDP", "SCTP", "ICMP", "ICMPv6", "ANY"}

ConvertedKnownProtocolsAccepted ==
    (/\ ConvertedAndValidated
     /\ AllFieldsPresent
     /\ \A i \in 1..Len(rules) : Upper(rules[i].proto) \in KnownProtocols)
        => (is_valid = TRUE /\ schema_errors = <<>>)

----------------------------------------------------------------------------
(* Extraction against simulation *)

\* C25: every connection _extract_rules returns for a document is "allowed" by
\* _simulate_policy_enforcement on that document, the connections whose src or
\* dest fell back to "unknown" and those extracted with port "any" included.
ExtractedConnectionsAllowed ==
    (SimulatedEveryConnection /\ Has(results, "results")) =>
        \A i \in 1..Len(results.results) : results.results[i].status = "allowed"

\* What does hold: an extracted connection between two app labels is allowed
\* when its port is one a ports entry names.
ExtractedLabelledConnectionsAllowed ==
    (SimulatedEveryConnection /\ Has(results, "results")) =>
        \A i \in 1..Len(results.results) :
            LET r == results.results[i]
            IN  (/\ r.src # "unknown"
                 /\ r.dest # "unknown"
                 /\ r.port # PyStr("unknown")
                 /\ r.port # PyStr("any")) => r.status = "allowed"

----------------------------------------------------------------------------
(* The two extractors side by side *)

\* The two lists have the same length and their entries the same src, dest and
\* port, one by one.
SameConnections(l, m) ==
    /\ Len(l) = Len(m)
    /\ \A i \in 1..Len(l) :
        /\ l[i].src = m[i].src
        /\ l[i].dest = m[i].dest
        /\ l[i].port = m[i].port

\* C28: for every policy document, tester._extract_rules and
\* visualizer._extract_connections return lists of the same length whose
\* corresponding entries have the same src, dest and port.
ExtractorsAgree ==
    DidExtractRules =>
        /\ Has(extracted, "rules")
        /\ SameConnections(extracted.rules, extract_connections(Document))

\* What does hold: the extractors agree on documents in list form whose specs
\* and destinations all carry an app label and whose port entries all name a
\* port, every toPorts list naming at least one.
FullyLabelled(l) ==
    \A i \in 1..Len(l) :
        /\ l[i].src # "unknown"
        /\ l[i].dest # "unknown"
        /\ IsStr(l[i].port)

EveryToPortsNamesAPort(d) ==
    \A i \in 1..Len(d.specs) :
        \A j \in 1..Len(Get(d.specs[i], "egress", <<>>)) :
            LET egress == d.specs[i].egress[j]
            IN  Has(egress, "toPorts") =>
                    \E k \in 1..Len(egress.toPorts) : Get(egress.toPorts[k], "ports", <<>>) # <<>>

ExtractorsAgreeWhenLabelled ==
    (/\ DidExtractRules
     /\ Has(extracted, "rules")
     /\ Has(Document, "specs")
     /\ Document.specs # <<>>
     /\ FullyLabelled(extracted.rules)
     /\ EveryToPortsNamesAPort(Document))
        => SameConnections(extracted.rules, extract_connections(Document))

----------------------------------------------------------------------------
(* Deny and ingress rules under simulation *)

OtherRuleKeys == {"egressDeny", "ingressDeny", "ingress"}

Without(d, keys) == [k \in DOMAIN d \ keys |-> d[k]]

\* The document with every egressDeny, ingressDeny and ingress list removed
\* from its policy specs.
AllowRulesOnly(d) ==
    [k \in DOMAIN d |->
        IF k = "specs" THEN [i \in 1..Len(d.specs) |-> Without(d.specs[i], OtherRuleKeys)]
        ELSE IF k = "spec" THEN Without(d.spec, OtherRuleKeys)
        ELSE d[k]]

----------------------------------------------------------------------------
(* The two validity checks side by side *)

\* Where the schema reports on the top-level keys, on the apiVersion and kind
\* constants and on the presence of spec or specs.
TopLevelPaths == {<<>>, <<"apiVersion">>, <<"kind">>}

\* validate_policy found the file valid as far as its top level goes.
TopLevelValid ==
    /\ yaml_syntax_errors = <<>>
    /\ \A i \in 1..Len(schema_errors) : schema_errors[i].path \notin TopLevelPaths

\* C29: for every parsed document, tester._validate_policy_syntax returns valid
\* exactly when validate_policy reports the document valid with respect to its
\* top-level keys, the apiVersion and kind constants and the presence of spec
\* or specs; so for a document with both spec and specs, with an empty specs
\* list, or with no content.
ValidityChecksAgree ==
    (Validated /\ DidParse(file)) => (validate_policy_syntax(file).valid <=> TopLevelValid)

\* What does hold: the two checks agree on a mapping that has one of spec and
\* specs and not the other, the one it has not empty.
OneBodyKey(d) ==
    \/ Has(d, "specs") /\ ~Has(d, "spec") /\ d.specs # <<>>
    \/ Has(d, "spec") /\ ~Has(d, "specs") /\ d.spec # EmptyDict

ValidityChecksAgreeOnOneBody ==
    (Validated /\ HoldsDocument /\ OneBodyKey(Document))
        => (validate_policy_syntax(file).valid <=> TopLevelValid)

----------------------------------------------------------------------------
(* dashboard.main: the session of the Streamlit dashboard *)

\* The text of a YAML file, and the text yaml.dump writes for a document.
YamlText(s) == [text |-> s]
Dumped(doc) == [dump |-> doc]

NoUpload == [nofile |-> TRUE]
Undecodable == [undecodable |-> TRUE]

\* has_policy: the key is in the session and its text is not empty.
HasPolicy(s) == Has(s, "current_policy") /\ s.current_policy # YamlText("")

\* The session_state keys deleted, each one if it is there.
Deleted(s, keys) == [k \in DOMAIN s \ keys |-> s[k]]

\* A loader that records the text without its file.
Load_text_only(s, content, path) ==
    [k \in DOMAIN s \cup {"current_policy"} |-> IF k = "current_policy" THEN content ELSE s[k]]

\* st.session_state['current_policy'] = ...; st.session_state['policy_file'] = ...
Load(s, content, path) ==
    [k \in DOMAIN s \cup {"current_policy", "policy_file"} |->
        IF k = "current_policy" THEN content
        ELSE IF k = "policy_file" THEN path
        ELSE s[k]]

\* convert_json_to_yaml(json_data): the text and the name of the file written,
\* or the exception convert_rules raises.
convert_json_to_yaml(json_data) ==
    IF Has(json_data, "rules")
    THEN LET written(outcome) ==
                IF DidRaise(outcome) THEN outcome
                ELSE [yaml_content |-> Dumped(outcome.document),
                      yaml_file |-> "dashboard_policy.yaml"]
         IN  written(convert_rules(json_data.rules))
    ELSE Raised("TypeError")

\* page_options, "Policy Visualizer" offered while a policy is loaded.
PageOptions(s) ==
    {"Convert & Validate", "File Upload", "Policy Explorer"}
        \cup (IF HasPolicy(s) THEN {"Policy Visualizer"} ELSE {})

\* The selectbox at the start of a run: a selection that is no longer offered
\* falls back to the first option.
Shown(pg, s) == IF pg \in PageOptions(s) THEN pg ELSE "Convert & Validate"

\* The left column of the File Upload page, run whenever the page is: an
\* uploaded YAML file that decodes is loaded into the session.
YamlColumn(s, up, temp_yaml_path) ==
    IF up = NotRun \/ up.yaml \in {NoUpload, Undecodable} THEN s
    ELSE Load(s, up.yaml, temp_yaml_path)

\* One run of the script on page pg with no button pressed, as after st.rerun().
Script(s, pg, up, temp_yaml_path) ==
    IF pg = "File Upload" THEN YamlColumn(s, up, temp_yaml_path) ELSE s

\* The policy text parses to a document that is not empty.
Renders(content) == Has(content, "dump") \/ content = YamlText("kind: CiliumNetworkPolicy")

\* What the dashboard is given: JSON rules typed in, sample or uploaded; YAML
\* texts uploaded; policy files found by the explorer; temporary file names.
DashboardJson ==
    {[rules |-> rs] : rs \in Lists({FlatRule("A", "B", <<PyInt(80), "tcp">>),
                                    [src |-> "A", dest |-> "B", proto |-> "tcp"]}, 0, 1)}
        \cup {[mapping |-> TRUE]}
UploadedYaml == {YamlText("kind: CiliumNetworkPolicy"), YamlText(""), YamlText(": [")}
ExplorerFiles ==
    {[path |-> "dashboard_policy.yaml", content |-> YamlText("kind: CiliumNetworkPolicy")],
     [path |-> "sample_data/empty.yaml", content |-> YamlText("")]}
TempPaths == {"/tmp/tmpa.yaml", "/tmp/tmpb.yaml"}
NoUploads == [yaml |-> NoUpload, json |-> NoUpload]

InitDashboard ==
    /\ pc = "dashboard"
    /\ session = EmptyDict
    /\ page = "Convert & Validate"
    /\ uploaded = NoUploads
    /\ workflow = NotRun
    /\ IdleSim
    /\ IdleConv
    /\ IdleFile
    /\ IdleResult

\* The run that ends a button's handler with st.rerun(), from session s.
Rerun(s) ==
    \E temp_yaml_path \in TempPaths :
        /\ page' = Shown(page, s)
        /\ uploaded' = IF Shown(page, s) = page THEN uploaded ELSE NoUploads
        /\ session' = Script(s, Shown(page, s), uploaded, temp_yaml_path)

\* Another page chosen in the sidebar; the upload widgets of a page left are
\* gone with their files.
SelectPage ==
    /\ \E pg \in PageOptions(session) \ {page} : page' = pg
    /\ uploaded' = NoUploads
    /\ UNCHANGED session

\* "Start New Session": every key deleted, then st.rerun().
StartNewSession == Rerun(EmptyDict)

\* "Clear Policy", offered while has_policy.
ClearPolicy ==
    /\ HasPolicy(session)
    /\ Rerun(Deleted(session, {"current_policy", "policy_file"}))

\* "Convert to YAML" on the Convert & Validate page, offered while no policy is
\* shown: both keys set and st.rerun(), or both deleted when the conversion
\* raises; empty JSON data only gives a warning.
ConvertToYAML ==
    /\ page = "Convert & Validate"
    /\ ~HasPolicy(session)
    /\ \E json_data \in DashboardJson :
        IF Has(json_data, "rules") /\ json_data.rules = <<>>
        THEN UNCHANGED <<session, page, uploaded>>
        ELSE LET after(outcome) ==
                    IF DidRaise(outcome)
                    THEN /\ session' = Deleted(session, {"current_policy", "policy_file"})
                         /\ UNCHANGED <<page, uploaded>>
                    ELSE Rerun(Load(session, outcome.yaml_content, outcome.yaml_file))
             IN  after(convert_json_to_yaml(json_data))

\* "Convert New JSON" next to the policy shown.
ConvertNewJSON ==
    /\ page = "Convert & Validate"
    /\ HasPolicy(session)
    /\ Rerun(Deleted(session, {"current_policy", "policy_file"}))

\* "Clear Current Policy" under the graph of the Policy Visualizer page.
ClearCurrentPolicy ==
    /\ page = "Policy Visualizer"
    /\ HasPolicy(session)
    /\ Renders(session.current_policy)
    /\ Rerun(Deleted(session, {"current_policy", "policy_file"}))

\* A YAML file put into the uploader, replaced or removed, and the run that
\* follows; "Validate Uploaded Policy" is one more such run.
UploadYAML ==
    /\ page = "File Upload"
    /\ \E f \in UploadedYaml \cup {NoUpload, Undecodable}, temp_yaml_path \in TempPaths :
        /\ uploaded' = [uploaded EXCEPT !.yaml = f]
        /\ session' = YamlColumn(session, [uploaded EXCEPT !.yaml = f], temp_yaml_path)
    /\ UNCHANGED page

\* A JSON file put into the uploader, replaced or removed, and the run that follows.
UploadJSON ==
    /\ page = "File Upload"
    /\ \E f \in DashboardJson \cup {NoUpload, Undecodable}, temp_yaml_path \in TempPaths :
        /\ uploaded' = [uploaded EXCEPT !.json = f]
        /\ session' = YamlColumn(session, uploaded, temp_yaml_path)
    /\ UNCHANGED page

\* "Convert Uploaded JSON", offered once the uploaded file is parsed: the left
\* column runs first, then both keys are set unless the conversion raises.
ConvertUploadedJSON ==
    /\ page = "File Upload"
    /\ uploaded.json \notin {NoUpload, Undecodable}
    /\ \E temp_yaml_path \in TempPaths :
        LET after(s, outcome) ==
                IF DidRaise(outcome) THEN s
                ELSE Load(s, outcome.yaml_content, outcome.yaml_file)
        IN  session' = after(YamlColumn(session, uploaded, temp_yaml_path),
                             convert_json_to_yaml(uploaded.json))
    /\ UNCHANGED <<page, uploaded>>

\* "Visualize This Policy" on the Policy Explorer page, for the file selected.
VisualizeThisPolicy ==
    /\ page = "Policy Explorer"
    /\ \E selected_policy \in ExplorerFiles :
        session' = Load(session, selected_policy.content, selected_policy.path)
    /\ UNCHANGED <<page, uploaded>>

NextDashboard ==
    /\ \/ SelectPage
       \/ StartNewSession
       \/ ClearPolicy
       \/ ConvertToYAML
       \/ ConvertNewJSON
       \/ ClearCurrentPolicy
       \/ UploadYAML
       \/ UploadJSON
       \/ ConvertUploadedJSON
       \/ VisualizeThisPolicy
    /\ UNCHANGED <<pc, workflow, simVars, convVars, resultVars, fileVars>>

SpecDashboard == InitDashboard /\ [][NextDashboard]_vars

----------------------------------------------------------------------------
(* What the dashboard's contract speaks of *)

\* C30: at the end of every script run of the dashboard, whatever the buttons
\* pressed and files uploaded before, the session holds the key current_policy
\* if and only if it holds the key policy_file.
PolicyAndFileTogether ==
    pc = "dashboard" => (Has(session, "current_policy") <=> Has(session, "policy_file"))

\* A converted policy is in the session with the file it was written to, the
\* Policy Visualizer chosen.
ConvertedPolicyShown ==
    /\ pc = "dashboard"
    /\ page = "Policy Visualizer"
    /\ Has(session, "current_policy")
    /\ Has(session.current_policy, "dump")
    /\ Has(session, "policy_file")
    /\ session.policy_file = "dashboard_policy.yaml"

====
